---------------------------- MODULE Spec2Model ----------------------------
(***************************************************************************)
(* A model of backend/server.py of the wealth tracker: the projection and  *)
(* analytics functions, the process-wide state they touch, and the asset   *)
(* store with its gold price lookup.                                       *)
(*                                                                         *)
(* Numbers.  The program computes with Python floats.  The model computes  *)
(* with exact rationals <<n, d>> (d > 0, lowest terms), so every equation  *)
(* below is an equation of real arithmetic; float rounding is not          *)
(* modelled.  TLC integers are 32 bits wide, so the input sets hold small  *)
(* amounts and growth rates whose monthly factor 1 + rate/1200 is a small  *)
(* fraction (0, 1, 2 or -1).                                               *)
(***************************************************************************)
EXTENDS Integers, Sequences, FiniteSets, TLC

VARIABLES
    op,        \* the function the last call ran ("none" before any call)
    args,      \* the arguments of the last call
    result,    \* what the last call returned (<<>> when it raised)
    error,     \* the exception the last call raised ("none" when it returned)
    rng,       \* the state of numpy's global random generator (np.random)
    rng_before,\* history: the state of the generator when the last call began
    first_mc,  \* history: the first Monte Carlo call (arguments, result,
               \* state of the generator when it began)
    db,        \* db.assets: the stored asset documents, in insertion order
    now,       \* the clock (datetime.utcnow()): the number of store calls made
    users,     \* db.users: the stored user documents, in insertion order
    requests   \* the register requests: where each one is in its handler

vars == <<op, args, result, error, rng, rng_before, first_mc, db, now, users,
          requests>>

-----------------------------------------------------------------------------
(* Exact rational arithmetic.                                              *)

RECURSIVE GCD(_, _)
GCD(a, b) == IF b = 0 THEN a ELSE GCD(b, a % b)

Abs(n) == IF n < 0 THEN -n ELSE n

Norm(n, d) ==
    LET g == GCD(Abs(n), Abs(d))
        s == IF d < 0 THEN -1 ELSE 1
    IN  <<s * (n \div g), s * (d \div g)>>

R(n) == <<n, 1>>
Zero == R(0)
One == R(1)

RAdd(a, b) ==
    LET g == GCD(a[2], b[2])
    IN  Norm(a[1] * (b[2] \div g) + b[1] * (a[2] \div g), (a[2] \div g) * b[2])
RNeg(a) == <<-a[1], a[2]>>
RSub(a, b) == RAdd(a, RNeg(b))
RMul(a, b) ==
    LET g1 == GCD(Abs(a[1]), b[2])
        g2 == GCD(Abs(b[1]), a[2])
    IN  Norm((a[1] \div g1) * (b[1] \div g2), (a[2] \div g2) * (b[2] \div g1))
RDiv(a, b) == RMul(a, Norm(b[2], b[1]))
RLt(a, b) == RSub(a, b)[1] < 0
RLe(a, b) == RSub(a, b)[1] <= 0
RGt(a, b) == RLt(b, a)
RGe(a, b) == RLe(b, a)
RMin(a, b) == IF RLe(a, b) THEN a ELSE b
RMax(a, b) == IF RGe(a, b) THEN a ELSE b

RECURSIVE RPow(_, _)
RPow(a, k) == IF k = 0 THEN One ELSE RMul(a, RPow(a, k - 1))

\* int(x): truncation toward zero.
RTrunc(a) == IF a[1] >= 0 THEN a[1] \div a[2] ELSE -((-a[1]) \div a[2])

-----------------------------------------------------------------------------
(* Bounds of the model and constants of the program.                       *)

MaxYears == 3        \* longest horizon of a projection input
MaxInputs == 2       \* longest list of projection inputs
MaxSimYears == 2     \* longest horizon of a Monte Carlo simulation
MaxSims == 3         \* most simulations of a Monte Carlo call
MaxAssets == 3       \* most assets of a portfolio
MaxTaxAssets == 2    \* most assets of a portfolio given to the tax optimizer
MaxStored == 2       \* most documents of the asset store
MaxCalls == 3        \* most calls of the store's endpoints in a behaviour
MaxRequests == 3     \* register requests in flight at once

MonthsPerYear == 12  \* for month in range(1, 13)
DefaultYears == 10   \* the horizon of an empty request

-----------------------------------------------------------------------------
(* calculate_compound_growth                                               *)

\* growth of one year: what the year added beyond the contributions.
YearGrowth_Compounded(current_value, year_start_value, year_sip_contribution, annual_investment, annual_rate) ==
    RSub(RMul(year_start_value, RAdd(One, RDiv(annual_rate, R(100)))),
         year_start_value)

YearGrowth(current_value, year_start_value, year_sip_contribution, annual_investment, annual_rate) ==
    RSub(RSub(RSub(current_value, year_start_value), year_sip_contribution),
         annual_investment)

\* the step-up applied to the monthly SIP after a year's record is emitted.
StepUp_Linear(current_monthly_sip, monthly_sip, step_up_percentage) ==
    IF RGt(step_up_percentage, Zero)
    THEN RAdd(current_monthly_sip,
              RMul(monthly_sip, RDiv(step_up_percentage, R(100))))
    ELSE current_monthly_sip

StepUp(current_monthly_sip, monthly_sip, step_up_percentage) ==
    IF RGt(step_up_percentage, Zero)
    THEN RMul(current_monthly_sip,
              RAdd(One, RDiv(step_up_percentage, R(100))))
    ELSE current_monthly_sip

MonthStep_GrowthFirst(before, current_monthly_sip, annual_rate) ==
    LET paid == RGt(current_monthly_sip, Zero)
        monthly_rate == RDiv(RDiv(annual_rate, R(100)), R(12))
        grown == RMul(before[1], RAdd(One, monthly_rate))
    IN  <<IF paid THEN RAdd(grown, current_monthly_sip) ELSE grown,
          IF paid THEN RAdd(before[2], current_monthly_sip) ELSE before[2]>>

\* one month: the SIP is paid in, then the month's growth is applied.
\* before and the result are <<current_value, year_sip_contribution>>.
MonthStep(before, current_monthly_sip, annual_rate) ==
    LET paid == RGt(current_monthly_sip, Zero)
        with_sip == IF paid THEN RAdd(before[1], current_monthly_sip)
                            ELSE before[1]
        sip_sum == IF paid THEN RAdd(before[2], current_monthly_sip)
                           ELSE before[2]
        monthly_rate == RDiv(RDiv(annual_rate, R(100)), R(12))
    IN  <<RMul(with_sip, RAdd(One, monthly_rate)), sip_sum>>

\* the state after `month` months of a year that starts with year_start_value
\* (written with a bound variable so that each month is computed before the
\* next one starts).
RECURSIVE MonthLoop(_, _, _, _)
MonthLoop(month, year_start_value, current_monthly_sip, annual_rate) ==
    IF month = 0
    THEN <<year_start_value, Zero>>
    ELSE CHOOSE after \in
             {MonthStep(before, current_monthly_sip, annual_rate) :
                 before \in {MonthLoop(month - 1, year_start_value,
                                       current_monthly_sip, annual_rate)}} :
             TRUE

\* one iteration of the loop over the years.  before and the result hold the
\* records so far, current_value and current_monthly_sip.
YearStep(before, year, annual_rate, annual_investment, monthly_sip, step_up_percentage) ==
    LET year_start_value == before.current_value
        months == MonthLoop(MonthsPerYear, year_start_value,
                            before.current_monthly_sip, annual_rate)
        year_end == RAdd(months[1], annual_investment)
        growth == YearGrowth(year_end, year_start_value, months[2],
                             annual_investment, annual_rate)
        rec == [year |-> year,
                total_value |-> year_end,
                investment_added |-> annual_investment,
                growth |-> growth,
                sip_contribution |-> months[2],
                lumpsum_contribution |-> annual_investment]
    IN  [results |-> Append(before.results, rec),
         current_value |-> year_end,
         current_monthly_sip |->
             StepUp(before.current_monthly_sip, monthly_sip,
                    step_up_percentage)]

RECURSIVE YearLoop(_, _, _, _, _, _)
YearLoop(year, principal, annual_rate, annual_investment, monthly_sip, step_up_percentage) ==
    IF year = 0
    THEN [results |-> <<>>, current_value |-> principal,
          current_monthly_sip |-> monthly_sip]
    ELSE CHOOSE after \in
             {YearStep(before, year, annual_rate, annual_investment,
                       monthly_sip, step_up_percentage) :
                 before \in {YearLoop(year - 1, principal, annual_rate,
                                      annual_investment, monthly_sip,
                                      step_up_percentage)}} :
             TRUE

calculate_compound_growth(principal, annual_rate, annual_investment, years, monthly_sip, step_up_percentage) ==
    YearLoop(IF years > 0 THEN years ELSE 0, principal, annual_rate,
             annual_investment, monthly_sip, step_up_percentage).results

-----------------------------------------------------------------------------
(* calculate_projections                                                   *)

RECURSIVE MaxOfYears(_)
MaxOfYears(projections) ==
    IF Len(projections) = 1
    THEN projections[1].years
    ELSE LET m == MaxOfYears(Tail(projections))
         IN  IF projections[1].years >= m THEN projections[1].years ELSE m

Horizon_EmptyIsEmpty(projections) ==
    IF projections # <<>> THEN MaxOfYears(projections) ELSE 0

Horizon_First(projections) ==
    IF projections # <<>> THEN projections[1].years ELSE DefaultYears

\* years = max(p.years for p in projections) if projections else 10
Horizon(projections) ==
    IF projections # <<>> THEN MaxOfYears(projections) ELSE DefaultYears

ZeroTotals(year) ==
    [year |-> year, total_value |-> Zero, investment_added |-> Zero,
     growth |-> Zero, sip_contribution |-> Zero,
     lumpsum_contribution |-> Zero]

AddResult_NoGrowth(total, res) ==
    [year |-> total.year,
     total_value |-> RAdd(total.total_value, res.total_value),
     investment_added |-> RAdd(total.investment_added, res.investment_added),
     growth |-> total.growth,
     sip_contribution |-> RAdd(total.sip_contribution, res.sip_contribution),
     lumpsum_contribution |->
         RAdd(total.lumpsum_contribution, res.lumpsum_contribution)]

\* yearly_totals[result.year][...] += result....
AddResult(total, res) ==
    [year |-> total.year,
     total_value |-> RAdd(total.total_value, res.total_value),
     investment_added |-> RAdd(total.investment_added, res.investment_added),
     growth |-> RAdd(total.growth, res.growth),
     sip_contribution |-> RAdd(total.sip_contribution, res.sip_contribution),
     lumpsum_contribution |->
         RAdd(total.lumpsum_contribution, res.lumpsum_contribution)]

ProjectionOf(p) ==
    calculate_compound_growth(p.current_value, p.annual_growth_rate,
                              p.annual_investment, p.years,
                              p.monthly_sip_amount, p.step_up_percentage)

\* for result in asset_projections: if result.year <= years: add it
AddProjection(yearly_totals, asset_projections, years) ==
    [y \in 1..years |->
        IF y <= Len(asset_projections)
        THEN AddResult(yearly_totals[y], asset_projections[y])
        ELSE yearly_totals[y]]

RECURSIVE ProjectionLoop(_, _, _, _)
ProjectionLoop(i, yearly_totals, projections, years) ==
    IF i > Len(projections)
    THEN yearly_totals
    ELSE ProjectionLoop(i + 1,
                        AddProjection(yearly_totals,
                                      ProjectionOf(projections[i]), years),
                        projections, years)

calculate_projections(projections) ==
    LET years == Horizon(projections)
    IN  ProjectionLoop(1, [y \in 1..years |-> ZeroTotals(y)], projections,
                       years)

-----------------------------------------------------------------------------
(* numpy's global random generator.  The generator is modelled as a        *)
(* deterministic generator over RngMod states: seeding puts it in a state  *)
(* fixed by the seed, every draw returns a sample computed from the state  *)
(* and advances it.  A standard normal sample is one of -2..2, a uniform   *)
(* sample one of 0/8..7/8.                                                 *)

RngMod == 8             \* number of states of the modelled generator
MonteCarloSeed == 42     \* np.random.seed(42)

RngStates == 0..(RngMod - 1)

RngNext(state) == (5 * state + 1) % RngMod

Seeded_Not(state) == state

\* the generator after np.random.seed(42), whatever its state was.
Seeded(state) == MonteCarloSeed % RngMod

\* np.random.normal(loc, scale), drawn in `state`.
Normal(state, loc, scale) == RAdd(loc, RMul(scale, R((state % 5) - 2)))

\* np.random.uniform(low, high), drawn in `state`.
Uniform(state, low, high) ==
    RAdd(low, RMul(RSub(high, low), <<state % 9, 9>>))

-----------------------------------------------------------------------------
(* run_monte_carlo_simulation                                              *)

SimYear_InvestAfterReturn(path, annual_return, volatility, annual_investment) ==
    LET annual_return_this_year == Normal(path.rng, annual_return, volatility)
        portfolio_value ==
            RAdd(RMul(path.portfolio_value,
                      RAdd(One, RDiv(annual_return_this_year, R(100)))),
                 annual_investment)
    IN  [yearly_values |-> Append(path.yearly_values, portfolio_value),
         portfolio_value |-> portfolio_value,
         rng |-> RngNext(path.rng)]

\* one year of one simulation; path holds the values so far (yearly_values
\* without the initial value), the running portfolio_value and the generator.
SimYear(path, annual_return, volatility, annual_investment) ==
    LET invested == RAdd(path.portfolio_value, annual_investment)
        annual_return_this_year == Normal(path.rng, annual_return, volatility)
        portfolio_value ==
            RMul(invested, RAdd(One, RDiv(annual_return_this_year, R(100))))
    IN  [yearly_values |-> Append(path.yearly_values, portfolio_value),
         portfolio_value |-> portfolio_value,
         rng |-> RngNext(path.rng)]

RECURSIVE SimYears(_, _, _, _, _, _)
SimYears(year, state, initial_value, annual_return, volatility, annual_investment) ==
    IF year = 0
    THEN [yearly_values |-> <<>>, portfolio_value |-> initial_value,
          rng |-> state]
    ELSE CHOOSE path \in
             {SimYear(before, annual_return, volatility, annual_investment) :
                 before \in {SimYears(year - 1, state, initial_value,
                                      annual_return, volatility,
                                      annual_investment)}} :
             TRUE

\* the first n simulations, run one after the other from generator `state`:
\* the rows of results and the generator after them.
RECURSIVE Simulations(_, _, _, _, _, _, _)
Simulations(n, state, initial_value, annual_return, volatility, annual_investment, years) ==
    IF n = 0
    THEN [results |-> <<>>, rng |-> state]
    ELSE CHOOSE after \in
             {LET path == SimYears(years, before.rng, initial_value,
                                   annual_return, volatility,
                                   annual_investment)
              IN  [results |-> Append(before.results, path.yearly_values),
                   rng |-> path.rng] :
                 before \in {Simulations(n - 1, state, initial_value,
                                         annual_return, volatility,
                                         annual_investment, years)}} :
             TRUE

\* seq with x inserted before the first element greater than it.
RECURSIVE Insert(_, _)
Insert(seq, x) ==
    IF seq = <<>> THEN <<x>>
    ELSE IF RLe(x, seq[1]) THEN <<x>> \o seq
    ELSE <<seq[1]>> \o Insert(Tail(seq), x)

RECURSIVE Sorted(_)
Sorted(seq) ==
    IF seq = <<>> THEN <<>> ELSE Insert(Sorted(Tail(seq)), seq[1])

Ordered_Not(column) == column

\* np.percentile orders the values of a year before it interpolates.
Ordered(column) == Sorted(column)

\* np.percentile(column, q): linear interpolation between the two order
\* statistics around position q/100 x (n - 1).
Percentile(column, q) ==
    LET a == Ordered(column)
        n == Len(a)
        position == RDiv(R(q * (n - 1)), R(100))
        lower == RTrunc(position)
        upper == IF lower + 1 < n THEN lower + 1 ELSE lower
        fraction == RSub(position, R(lower))
    IN  RAdd(a[lower + 1], RMul(fraction, RSub(a[upper + 1], a[lower + 1])))

\* np.percentile(results_array, q, axis=0).tolist()
PercentileBand(results, years, q) ==
    [y \in 1..years |->
        Percentile([i \in 1..Len(results) |-> results[i][y]], q)]

\* len(range(n))
RangeLen(n) == IF n > 0 THEN n ELSE 0

\* what run_monte_carlo_simulation returns, or the exception it raises, and
\* the generator it leaves, when called with the generator in `state`.  For
\* years <= 0 every row of results is empty, so are the percentile lists, and
\* percentile_10[-1] raises IndexError.
run_monte_carlo_simulation(state, initial_value, annual_return, volatility, annual_investment, years, simulations) ==
    LET sims == Simulations(simulations, Seeded(state), initial_value,
                            annual_return, volatility, annual_investment,
                            RangeLen(years))
        percentile_10 == PercentileBand(sims.results, years, 10)
        percentile_25 == PercentileBand(sims.results, years, 25)
        percentile_50 == PercentileBand(sims.results, years, 50)
        percentile_75 == PercentileBand(sims.results, years, 75)
        percentile_90 == PercentileBand(sims.results, years, 90)
    IN  IF RangeLen(years) = 0
        THEN [raised |-> "IndexError", result |-> <<>>, rng |-> sims.rng]
        ELSE
        [raised |-> "none",
         result |->
            [percentile_10 |-> percentile_10,
             percentile_25 |-> percentile_25,
             percentile_50 |-> percentile_50,
             percentile_75 |-> percentile_75,
             percentile_90 |-> percentile_90,
             years |-> [y \in 1..years |-> y],
             confidence_range |-> "80% (10th to 90th percentile)",
             final_values |->
                 [worst_case |-> percentile_10[years],
                  pessimistic |-> percentile_25[years],
                  most_likely |-> percentile_50[years],
                  optimistic |-> percentile_75[years],
                  best_case |-> percentile_90[years]]],
         rng |-> sims.rng]

-----------------------------------------------------------------------------
(* Assets and the dashboard summary.  An asset is a record with the fields *)
(* of Asset the analytics read: name, asset_type, purchase_value,          *)
(* current_value, purchase_date (a day number) and is_sip_active.          *)

AssetTypes == {"stocks", "mutual_funds", "cryptocurrency", "real_estate", "fixed_deposits", "gold", "others"}

\* ASSET_TYPES_DICT.get(asset_type, asset_type)
DisplayName(asset_type) ==
    CASE asset_type = "stocks" -> "Stocks"
      [] asset_type = "mutual_funds" -> "Mutual Funds"
      [] asset_type = "cryptocurrency" -> "Cryptocurrency"
      [] asset_type = "real_estate" -> "Real Estate"
      [] asset_type = "fixed_deposits" -> "Fixed Deposits"
      [] asset_type = "gold" -> "Gold"
      [] asset_type = "others" -> "Others"
      [] OTHER -> asset_type

RECURSIVE SumOf(_, _)
SumOf(assets, field) ==
    IF assets = <<>> THEN Zero
    ELSE RAdd(assets[1][field], SumOf(Tail(assets), field))

\* the keys of asset_allocation, in the order the dict received them.
RECURSIVE AllocationKeys(_)
AllocationKeys(assets) ==
    IF assets = <<>> THEN <<>>
    ELSE LET before == AllocationKeys(SubSeq(assets, 1, Len(assets) - 1))
             asset_type == assets[Len(assets)].asset_type
         IN  IF \E i \in 1..Len(before) : before[i] = asset_type
             THEN before
             ELSE Append(before, asset_type)

SelectType(assets, asset_type) ==
    SelectSeq(assets, LAMBDA a : a.asset_type = asset_type)

\* asset_allocation: each asset type present, with the sum of its assets'
\* current values.
AssetAllocation(assets) ==
    LET keys == AllocationKeys(assets)
    IN  [keys |-> keys,
         amount |-> [t \in {keys[i] : i \in 1..Len(keys)} |->
                        SumOf(SelectType(assets, t), "current_value")]]

EmptyDashboard_Preset ==
    [total_net_worth |-> Zero, total_investment |-> Zero,
     total_gain_loss |-> Zero, gain_loss_percentage |-> Zero,
     asset_allocation |-> [keys |-> <<"others">>,
                           amount |-> [t \in {"others"} |-> Zero]]]

\* the DashboardSummary get_dashboard returns for a user without assets.
EmptyDashboard ==
    [total_net_worth |-> Zero, total_investment |-> Zero,
     total_gain_loss |-> Zero, gain_loss_percentage |-> Zero,
     asset_allocation |-> [keys |-> <<>>, amount |-> <<>>]]

\* the DashboardSummary get_dashboard computes from the user's assets.
DashboardSummary(assets) ==
    LET total_investment == SumOf(assets, "purchase_value")
        total_net_worth == SumOf(assets, "current_value")
        total_gain_loss == RSub(total_net_worth, total_investment)
    IN  IF assets = <<>> THEN EmptyDashboard ELSE
        [total_net_worth |-> total_net_worth,
         total_investment |-> total_investment,
         total_gain_loss |-> total_gain_loss,
         gain_loss_percentage |->
             IF RGt(total_investment, Zero)
             THEN RMul(RDiv(total_gain_loss, total_investment), R(100))
             ELSE Zero,
         asset_allocation |-> AssetAllocation(assets)]

-----------------------------------------------------------------------------
(* calculate_financial_health_score                                        *)

When(condition, text) == IF condition THEN <<text>> ELSE <<>>

RECURSIVE MaxAmount(_, _)
MaxAmount(allocation, i) ==
    IF i = 1 THEN allocation.amount[allocation.keys[1]]
    ELSE RMax(allocation.amount[allocation.keys[i]],
              MaxAmount(allocation, i - 1))

\* sum(v for k, v in asset_allocation.items() if k in types)
RECURSIVE AmountIn(_, _, _)
AmountIn(allocation, types, i) ==
    IF i = 0 THEN Zero
    ELSE RAdd(IF allocation.keys[i] \in types
              THEN allocation.amount[allocation.keys[i]] ELSE Zero,
              AmountIn(allocation, types, i - 1))

\* value / total_net_worth * 100
PercentOf(value, total_net_worth) == RMul(RDiv(value, total_net_worth), R(100))

DiversificationScore_Uncapped(asset_count, max_allocation) ==
    RTrunc(RAdd(R(asset_count * 30), RMul(RSub(R(100), max_allocation), R(2))))

\* int(min(200, asset_count * 30 + (100 - max_allocation) * 2))
DiversificationScore(asset_count, max_allocation) ==
    RTrunc(RMin(R(200),
                RAdd(R(asset_count * 30),
                     RMul(RSub(R(100), max_allocation), R(2)))))

\* min(200, len(sip_assets) * 50 + (len(sip_assets) > 0) * 50)
ConsistencyScore(sip_count) ==
    LET score == sip_count * 50 + (IF sip_count > 0 THEN 50 ELSE 0)
    IN  IF score < 200 THEN score ELSE 200

GrowthScore(gain_loss_percentage) ==
    IF RGe(gain_loss_percentage, R(15)) THEN 200
    ELSE IF RGe(gain_loss_percentage, R(10)) THEN 150
    ELSE IF RGe(gain_loss_percentage, R(5)) THEN 100
    ELSE IF RGe(gain_loss_percentage, Zero) THEN 50
    ELSE 0

NetWorthScore(net_worth_tier) ==
    IF RGe(net_worth_tier, R(10000000)) THEN 200
    ELSE IF RGe(net_worth_tier, R(5000000)) THEN 150
    ELSE IF RGe(net_worth_tier, R(1000000)) THEN 100
    ELSE IF RGe(net_worth_tier, R(500000)) THEN 75
    ELSE IF RGe(net_worth_tier, R(100000)) THEN 50
    ELSE 25

RiskScore_BonusAbove(risky_percentage, safe_percentage) ==
    (IF RGt(risky_percentage, R(80)) THEN 50
     ELSE IF RGt(risky_percentage, R(60)) THEN 100
     ELSE 150)
    + (IF RGt(safe_percentage, R(20)) THEN 50 ELSE 0)

\* the risk score before the cap, for a non-empty allocation.
RiskScore(risky_percentage, safe_percentage) ==
    (IF RGt(risky_percentage, R(80)) THEN 50
     ELSE IF RGt(risky_percentage, R(60)) THEN 100
     ELSE 150)
    + (IF RGe(safe_percentage, R(20)) THEN 50 ELSE 0)

\* what calculate_financial_health_score returns, or the exception it raises.
calculate_financial_health_score(assets, dashboard) ==
    LET allocation == dashboard.asset_allocation
        has_allocation == allocation.keys # <<>>
        net_worth == dashboard.total_net_worth
    IN  IF has_allocation /\ net_worth = Zero
        THEN [raised |-> "ZeroDivisionError", result |-> <<>>]
        ELSE
        LET asset_count == Len(allocation.keys)
            max_allocation ==
                PercentOf(MaxAmount(allocation, asset_count), net_worth)
            concentrated == has_allocation /\ RGt(max_allocation, R(70))
            diversification ==
                IF has_allocation
                THEN DiversificationScore(asset_count, max_allocation)
                ELSE 0
            sip_count ==
                Len(SelectSeq(assets, LAMBDA asset : asset.is_sip_active))
            consistency == ConsistencyScore(sip_count)
            gain == dashboard.gain_loss_percentage
            performance == GrowthScore(gain)
            wealth_accumulation == NetWorthScore(net_worth)
            risky_percentage ==
                PercentOf(AmountIn(allocation, {"cryptocurrency", "stocks"},
                                   asset_count), net_worth)
            safe_percentage ==
                PercentOf(AmountIn(allocation, {"fixed_deposits", "gold"},
                                   asset_count), net_worth)
            risk_score ==
                IF has_allocation
                THEN RiskScore(risky_percentage, safe_percentage)
                ELSE 100
            risk_management == IF risk_score < 200 THEN risk_score ELSE 200
            overall_score == diversification + consistency + performance
                             + wealth_accumulation + risk_management
        IN  [raised |-> "none",
             result |->
                [overall_score |-> overall_score,
                 category_scores |->
                    [diversification |-> diversification,
                     consistency |-> consistency,
                     performance |-> performance,
                     wealth_accumulation |-> wealth_accumulation,
                     risk_management |-> risk_management],
                 recommendations |->
                    When(concentrated,
                         "Consider diversifying across more asset classes")
                    \o When(sip_count = 0,
                            "Consider starting SIPs for regular investing")
                    \o When(RLt(gain, Zero),
                            "Review and rebalance portfolio allocation")
                    \o When(RLt(net_worth, R(100000)),
                            "Focus on increasing monthly investments")
                    \o When(has_allocation /\ RGt(risky_percentage, R(80)),
                            "Consider reducing high-risk asset concentration")
                    \o When(600 <= overall_score /\ overall_score < 800,
                            "Consider minor optimizations to reach excellent tier")
                    \o When(400 <= overall_score /\ overall_score < 600,
                            "Focus on diversification and consistent investing")
                    \o When(overall_score < 400,
                            "Significant improvements needed in financial planning"),
                 strengths |->
                    When(has_allocation /\ ~concentrated,
                         "Well-diversified portfolio across multiple asset classes")
                    \o When(sip_count > 0,
                            "Consistent SIP investments in "
                            \o ToString(sip_count) \o " assets")
                    \o When(RGe(gain, R(15)), "Excellent portfolio performance")
                    \o When(RGe(gain, R(10)) /\ RLt(gain, R(15)),
                            "Good portfolio performance")
                    \o When(RGe(net_worth, R(10000000)),
                            "Achieved significant wealth accumulation")
                    \o When(RGe(net_worth, R(5000000))
                            /\ RLt(net_worth, R(10000000)),
                            "Strong wealth accumulation progress")
                    \o When(has_allocation /\ RLe(risky_percentage, R(60)),
                            "Balanced risk allocation")
                    \o When(has_allocation /\ RGe(safe_percentage, R(20)),
                            "Good defensive asset allocation")
                    \o When(overall_score >= 800,
                            "Excellent overall financial health"),
                 areas_for_improvement |->
                    When(concentrated,
                         "Portfolio is heavily concentrated in one asset class")
                    \o When(sip_count = 0,
                            "No systematic investment plans (SIPs) active")
                    \o When(RLt(gain, Zero),
                            "Portfolio showing negative returns")]]

-----------------------------------------------------------------------------
(* calculate_performance_attribution                                       *)

\* the generator after k draws.
RECURSIVE RngAfter(_, _)
RngAfter(state, k) == IF k = 0 THEN state ELSE RngNext(RngAfter(state, k - 1))

\* round(x, 2): to the nearest hundredth, a tie to the even one.
Round2(x) ==
    LET scaled == RMul(x, R(100))
        floor == IF scaled[1] >= 0 THEN scaled[1] \div scaled[2]
                 ELSE -((-scaled[1] + scaled[2] - 1) \div scaled[2])
        twice_rest == 2 * (scaled[1] - floor * scaled[2])
        nearest == IF twice_rest < scaled[2] THEN floor
                   ELSE IF twice_rest > scaled[2] THEN floor + 1
                   ELSE IF floor % 2 = 0 THEN floor ELSE floor + 1
    IN  Norm(nearest, 100)

\* (current_value - purchase_value) / total_investment * 100
ContributionOf(asset, dashboard) ==
    IF RGt(dashboard.total_investment, Zero)
    THEN RMul(RDiv(RSub(asset.current_value, asset.purchase_value),
                   dashboard.total_investment), R(100))
    ELSE Zero

\* (current_value - purchase_value) / purchase_value * 100
ReturnOf(asset) ==
    IF RGt(asset.purchase_value, Zero)
    THEN RMul(RDiv(RSub(asset.current_value, asset.purchase_value),
                   asset.purchase_value), R(100))
    ELSE Zero

AssetData(asset, dashboard) ==
    [name |-> asset.name,
     asset_type |-> asset.asset_type,
     return_percentage |-> ReturnOf(asset),
     contribution |-> ContributionOf(asset, dashboard),
     current_value |-> asset.current_value]

\* list.sort by return_percentage: a stable sort, ascending or (reverse=True)
\* descending.
RECURSIVE InsertPerformer(_, _, _)
InsertPerformer(seq, x, descending) ==
    IF seq = <<>> THEN <<x>>
    ELSE IF (IF descending
             THEN RGt(x.return_percentage, seq[1].return_percentage)
             ELSE RLt(x.return_percentage, seq[1].return_percentage))
    THEN <<x>> \o seq
    ELSE <<seq[1]>> \o InsertPerformer(Tail(seq), x, descending)

RECURSIVE SortPerformers(_, _)
SortPerformers(seq, descending) ==
    IF seq = <<>> THEN <<>>
    ELSE InsertPerformer(SortPerformers(SubSeq(seq, 1, Len(seq) - 1),
                                        descending),
                         seq[Len(seq)], descending)

FirstFive_All(seq) == seq

FirstFive(seq) == SubSeq(seq, 1, IF Len(seq) < 5 THEN Len(seq) ELSE 5)

\* the last asset of the list with this name (a later dict assignment
\* replaces an earlier one).
LastNamed(assets, name) ==
    assets[CHOOSE i \in 1..Len(assets) :
              /\ assets[i].name = name
              /\ \A j \in (i + 1)..Len(assets) : assets[j].name # name]

RECURSIVE SumOfReturns(_)
SumOfReturns(assets) ==
    IF assets = <<>> THEN Zero
    ELSE RAdd(ReturnOf(assets[1]), SumOfReturns(Tail(assets)))

SectorOf(asset_type, assets, dashboard) ==
    LET value == dashboard.asset_allocation.amount[asset_type]
        sector_assets == SelectType(assets, asset_type)
    IN  [allocation_percentage |->
             IF RGt(dashboard.total_net_worth, Zero)
             THEN PercentOf(value, dashboard.total_net_worth)
             ELSE Zero,
         average_return |->
             IF sector_assets # <<>>
             THEN RDiv(SumOfReturns(sector_assets), R(Len(sector_assets)))
             ELSE Zero,
         total_value |-> value]

\* the number of draws made before the entry (i, j), i # j, of the matrix.
DrawsBefore(i, j, n) == (i - 1) * (n - 1) + (IF j < i THEN j - 1 ELSE j - 2)

\* the entry (i, j) of the correlation matrix, drawn from generator `state`.
Correlation(state, i, j, n) ==
    IF i = j THEN One
    ELSE Round2(Uniform(RngAfter(state, DrawsBefore(i, j, n)),
                        <<1, 10>>, <<4, 5>>))

\* what calculate_performance_attribution returns and the generator it
\* leaves, when called with the generator in `state`.
calculate_performance_attribution(state, assets, dashboard) ==
    LET names == {assets[i].name : i \in 1..Len(assets)}
        data == [i \in 1..Len(assets) |-> AssetData(assets[i], dashboard)]
        keys == dashboard.asset_allocation.keys
        n == Len(keys)
    IN  [result |->
            [asset_contributions |->
                [name \in names |->
                    ContributionOf(LastNamed(assets, name), dashboard)],
             sector_analysis |->
                [sector \in {DisplayName(keys[i]) : i \in 1..n} |->
                    SectorOf(keys[CHOOSE i \in 1..n :
                                     DisplayName(keys[i]) = sector],
                             assets, dashboard)],
             time_weighted_returns |->
                [name \in names |-> ReturnOf(LastNamed(assets, name))],
             best_performers |->
                FirstFive(SortPerformers(
                    SelectSeq(data, LAMBDA d : RGt(d.return_percentage, Zero)),
                    TRUE)),
             worst_performers |->
                FirstFive(SortPerformers(
                    SelectSeq(data, LAMBDA d : ~RGt(d.return_percentage, Zero)),
                    FALSE)),
             correlation_matrix |->
                [row \in {DisplayName(keys[i]) : i \in 1..n} |->
                    [column \in {DisplayName(keys[i]) : i \in 1..n} |->
                        Correlation(state,
                            CHOOSE i \in 1..n : DisplayName(keys[i]) = row,
                            CHOOSE j \in 1..n : DisplayName(keys[j]) = column,
                            n)]]],
         rng |-> RngAfter(state, n * (n - 1))]

-----------------------------------------------------------------------------
(* calculate_tax_optimization                                              *)

LtcgExemption == 125000      \* LTCG_EXEMPTION
EquityThresholdDays == 365   \* long term after a year for equity-like types
OtherThresholdDays == 1095   \* long term after 36 months for the others
HoldWindowDays == 90         \* "close to threshold"

LtcgRate_Fifth == <<1, 5>>
LtcgRate == <<1, 8>>         \* LTCG_RATE = 0.125
StcgRate == <<1, 5>>         \* STCG_RATE = 0.20
HarvestRate == <<3, 10>>     \* the assumed 30% bracket

GainOf(asset) == RSub(asset.current_value, asset.purchase_value)

RAbs(a) == <<Abs(a[1]), a[2]>>

\* (current_date - purchase_date).days
HoldingDays(asset, current_date) == current_date - asset.purchase_date

ThresholdDays(asset) ==
    IF asset.asset_type \in {"stocks", "mutual_funds", "cryptocurrency"}
    THEN EquityThresholdDays
    ELSE OtherThresholdDays

IsLongTerm_AtThreshold(asset, current_date) ==
    HoldingDays(asset, current_date) >= ThresholdDays(asset)

IsLongTerm(asset, current_date) ==
    HoldingDays(asset, current_date) > ThresholdDays(asset)

RECURSIVE TotalGains_Net(_, _, _)
TotalGains_Net(assets, current_date, long_term) ==
    IF assets = <<>> THEN Zero
    ELSE RAdd(IF IsLongTerm(assets[1], current_date) = long_term
              THEN GainOf(assets[1]) ELSE Zero,
              TotalGains_Net(Tail(assets), current_date, long_term))

\* total_ltcg (long_term) or total_stcg of the assets with a gain.
RECURSIVE TotalGains(_, _, _)
TotalGains(assets, current_date, long_term) ==
    IF assets = <<>> THEN Zero
    ELSE RAdd(IF /\ RGt(GainOf(assets[1]), Zero)
                 /\ IsLongTerm(assets[1], current_date) = long_term
              THEN GainOf(assets[1]) ELSE Zero,
              TotalGains(Tail(assets), current_date, long_term))

\* n with a comma between its groups of three digits (n >= 0).
RECURSIVE Grouped(_)
Grouped(n) ==
    IF n < 1000 THEN ToString(n)
    ELSE Grouped(n \div 1000) \o ","
         \o (IF n % 1000 < 10 THEN "00" ELSE IF n % 1000 < 100 THEN "0" ELSE "")
         \o ToString(n % 1000)

\* the nearest integer to a >= 0, a tie to the even one (format ",.0f").
RoundHalfEven(a) ==
    LET floor == a[1] \div a[2]
        twice_rest == 2 * (a[1] - floor * a[2])
    IN  IF twice_rest < a[2] THEN floor
        ELSE IF twice_rest > a[2] THEN floor + 1
        ELSE IF floor % 2 = 0 THEN floor ELSE floor + 1

HoldSuggestion(asset, current_date) ==
    LET days_to_ltcg == ThresholdDays(asset) - HoldingDays(asset, current_date)
    IN  [type |-> "hold_for_ltcg",
         asset_name |-> asset.name,
         days_remaining |-> days_to_ltcg,
         potential_tax_saving |->
             RMul(GainOf(asset), RSub(StcgRate, LtcgRate)),
         description |-> "Hold " \o asset.name \o " for "
                         \o ToString(days_to_ltcg)
                         \o " more days to qualify for LTCG"]

\* (the description's currency sign is left out)
HarvestSuggestion(asset) ==
    [type |-> "loss_harvesting",
     asset_name |-> asset.name,
     loss_amount |-> RAbs(GainOf(asset)),
     tax_benefit |-> RMul(RAbs(GainOf(asset)), HarvestRate),
     description |-> "Realize loss of "
                     \o Grouped(RoundHalfEven(RAbs(GainOf(asset))))
                     \o " to offset gains"]

\* a short-term gain that turns long-term within the next 90 days.
NearLongTerm(asset, current_date) ==
    LET days_to_ltcg == ThresholdDays(asset) - HoldingDays(asset, current_date)
    IN  /\ RGt(GainOf(asset), Zero)
        /\ ~IsLongTerm(asset, current_date)
        /\ days_to_ltcg <= HoldWindowDays
        /\ days_to_ltcg > 0

RECURSIVE HoldSuggestions(_, _)
HoldSuggestions(assets, current_date) ==
    IF assets = <<>> THEN <<>>
    ELSE (IF NearLongTerm(assets[1], current_date)
          THEN <<HoldSuggestion(assets[1], current_date)>> ELSE <<>>)
         \o HoldSuggestions(Tail(assets), current_date)

RECURSIVE HarvestSuggestions(_)
HarvestSuggestions(assets) ==
    IF assets = <<>> THEN <<>>
    ELSE (IF ~RGt(GainOf(assets[1]), Zero)
          THEN <<HarvestSuggestion(assets[1])>> ELSE <<>>)
         \o HarvestSuggestions(Tail(assets))

\* what calculate_tax_optimization returns when datetime.now() is
\* current_date.
calculate_tax_optimization(assets, current_date) ==
    LET total_ltcg == TotalGains(assets, current_date, TRUE)
        total_stcg == TotalGains(assets, current_date, FALSE)
        ltcg_taxable == RMax(Zero, RSub(total_ltcg, R(LtcgExemption)))
        ltcg_liability == RMul(ltcg_taxable, LtcgRate)
        stcg_liability == RMul(total_stcg, StcgRate)
        total_tax_liability == RAdd(ltcg_liability, stcg_liability)
        total_gains == RAdd(total_ltcg, total_stcg)
    IN  [current_year_tax |->
            [ltcg_gains |-> total_ltcg,
             stcg_gains |-> total_stcg,
             ltcg_exemption_used |-> RMin(total_ltcg, R(LtcgExemption)),
             ltcg_exemption_remaining |->
                 RMax(Zero, RSub(R(LtcgExemption), total_ltcg))],
         ltcg_liability |-> ltcg_liability,
         stcg_liability |-> stcg_liability,
         tax_saving_opportunities |->
            HoldSuggestions(assets, current_date)
            \o (IF RGt(total_ltcg, R(LtcgExemption * 2))
                THEN <<[type |-> "ltcg_planning",
                        description |-> "Consider staggered profit booking across financial years",
                        potential_saving |->
                            RMul(RMul(RSub(total_ltcg, R(LtcgExemption)),
                                      LtcgRate), HarvestRate)]>>
                ELSE <<>>),
         harvesting_suggestions |-> HarvestSuggestions(assets),
         total_tax_liability |-> total_tax_liability,
         effective_tax_rate |->
            IF RGt(total_gains, Zero)
            THEN RMul(RDiv(total_tax_liability, total_gains), R(100))
            ELSE Zero]

-----------------------------------------------------------------------------
(* The asset store: create_asset, update_asset and get_dashboard.  A       *)
(* stored asset is a record with the fields of Asset read or written here: *)
(* id, user_id, asset_type, name, purchase_value, current_value,           *)
(* purchase_date, metadata, created_at, updated_at and is_sip_active.      *)
(* metadata is a dict: a function from the keys it holds.  A time is the   *)
(* value of the clock when the call ran.                                   *)

Gold22k == 5850    \* the demo price per gram of 22k gold
Gold24k == 6350    \* the demo price per gram of 24k gold

\* what get_gold_prices returns: None, or the prices fetched at `timestamp`.
NoPrices == [available |-> FALSE]

GoldPrices(timestamp) ==
    [available |-> TRUE, gold_22k |-> R(Gold22k), gold_24k |-> R(Gold24k),
     timestamp |-> timestamp]

\* metadata.get(key, default)
Get(metadata, key, default) ==
    IF key \in DOMAIN metadata THEN metadata[key] ELSE default

\* metadata[key] = value
Put(metadata, key, value) ==
    [k \in DOMAIN metadata \cup {key} |->
        IF k = key THEN value ELSE metadata[k]]

\* asset_type == AssetType.GOLD and metadata.get("weight_grams")
AutoPriced(asset) ==
    /\ asset.asset_type = "gold"
    /\ Get(asset.metadata, "weight_grams", 0) # 0

Rate_Always24k(purity, prices) == prices.gold_24k

\* prices.gold_24k if purity == "24k" else prices.gold_22k
Rate(purity, prices) ==
    IF purity = "24k" THEN prices.gold_24k ELSE prices.gold_22k

Repriced_ZeroWhenUnavailable(asset, prices) ==
    IF ~prices.available THEN [asset EXCEPT !.current_value = Zero] ELSE asset

\* the asset after the automatic gold valuation, given what get_gold_prices
\* returned.
Repriced(asset, prices) ==
    IF ~prices.available THEN asset
    ELSE LET weight == asset.metadata["weight_grams"]
             purity == Get(asset.metadata, "purity", "24k")
         IN  [asset EXCEPT
                 !.current_value = RMul(R(weight), Rate(purity, prices)),
                 !.metadata = Put(Put(asset.metadata, "auto_calculated", TRUE),
                                  "last_price_update", prices.timestamp)]

\* uuid.uuid4(): a value no other asset has; the number of the creating call.
NewId(time) == time + 1

\* the asset create_asset builds, stores and returns.
create_asset(asset_data, user_id, prices, time) ==
    LET asset == [id |-> NewId(time),
                  user_id |-> user_id,
                  asset_type |-> asset_data.asset_type,
                  name |-> asset_data.name,
                  purchase_value |-> asset_data.purchase_value,
                  current_value |-> asset_data.current_value,
                  purchase_date |-> asset_data.purchase_date,
                  metadata |-> asset_data.metadata,
                  created_at |-> time,
                  updated_at |-> time,
                  is_sip_active |-> asset_data.is_sip_active]
    IN  IF AutoPriced(asset) THEN Repriced(asset, prices) ELSE asset

Matching_AnyOwner(docs, asset_id, user_id) ==
    {i \in 1..Len(docs) : docs[i].id = asset_id}

\* the positions of the documents a query for `id` (and the owner) matches.
Matching(docs, asset_id, user_id) ==
    {i \in 1..Len(docs) : docs[i].id = asset_id /\ docs[i].user_id = user_id}

\* update_data["updated_at"] = datetime.utcnow()
UpdatedAt(asset, time) == time

\* {"$set": update_data}: the fields of asset_data that are not None, and
\* updated_at.
Updated(asset, asset_data, time) ==
    [field \in DOMAIN asset |->
        IF field \in DOMAIN asset_data THEN asset_data[field]
        ELSE IF field = "updated_at" THEN UpdatedAt(asset, time)
        ELSE asset[field]]

\* the status, the response and the store after update_asset.
update_asset(docs, asset_id, asset_data, user_id, time) ==
    IF Matching(docs, asset_id, user_id) = {}
    THEN [status |-> 404, result |-> <<>>, db |-> docs]
    ELSE LET first == CHOOSE i \in 1..Len(docs) :
                          /\ docs[i].id = asset_id
                          /\ \A j \in 1..(i - 1) : docs[j].id # asset_id
             after == [docs EXCEPT ![first] = Updated(docs[first], asset_data, time)]
         IN  [status |-> 200, result |-> after[first], db |-> after]

\* the documents of user_id, in the order of the store.
OwnedBy(docs, user_id) == SelectSeq(docs, LAMBDA asset : asset.user_id = user_id)

\* the response of get_assets.
get_assets(docs, user_id) == OwnedBy(docs, user_id)

\* the status and the response of get_asset.
get_asset(docs, asset_id, user_id) ==
    IF Matching(docs, asset_id, user_id) = {}
    THEN [status |-> 404, result |-> <<>>]
    ELSE LET first == CHOOSE i \in Matching(docs, asset_id, user_id) :
                          \A j \in Matching(docs, asset_id, user_id) : i <= j
         IN  [status |-> 200, result |-> docs[first]]

\* the status, the response and the store after delete_asset: delete_one
\* removes the first document the query matches.
delete_asset(docs, asset_id, user_id) ==
    IF Matching(docs, asset_id, user_id) = {}
    THEN [status |-> 404, result |-> <<>>, db |-> docs]
    ELSE LET first == CHOOSE i \in Matching(docs, asset_id, user_id) :
                          \A j \in Matching(docs, asset_id, user_id) : i <= j
         IN  [status |-> 200,
              result |-> [message |-> "Asset deleted successfully"],
              db |-> SubSeq(docs, 1, first - 1)
                     \o SubSeq(docs, first + 1, Len(docs))]

\* one asset of the loop of get_dashboard: asset_obj after it, given what
\* get_gold_prices returned for it.
Refreshed(asset, prices) ==
    IF AutoPriced(asset) THEN Repriced(asset, prices) ELSE asset

\* the response and the store after get_dashboard; prices[i] is what
\* get_gold_prices returns while the i-th document of the store is handled.
\* The refresh writes current_value and metadata, the two fields Repriced
\* changes.  (recent_assets is left out of the response.)
get_dashboard(docs, user_id, prices) ==
    LET after == [i \in 1..Len(docs) |->
                     IF docs[i].user_id = user_id
                     THEN Refreshed(docs[i], prices[i]) ELSE docs[i]]
    IN  [result |-> DashboardSummary(OwnedBy(after, user_id)), db |-> after]

-----------------------------------------------------------------------------
(* Inputs.                                                                 *)

\* 32-bit integers: a monthly factor of 2 fits for two years only.
Fits(annual_rate, years) == RGt(annual_rate, Zero) => years <= 2

Principals == {R(0), R(10)}
Rates == {R(-2400), R(-1200), R(0), R(1200)}
Investments == {R(0), R(3)}
Sips == {R(0), R(5)}
StepUps == {R(0), R(20), R(100)}

ProjectionInputs ==
    {p \in [asset_class : {"stocks"},
            current_value : {R(10)},
            annual_growth_rate : {R(-2400), R(0), R(1200)},
            annual_investment : {R(3)},
            years : 1..MaxYears,
            monthly_sip_amount : {R(5)},
            step_up_percentage : {R(20)}] :
        Fits(p.annual_growth_rate, p.years)}

RECURSIVE SeqsUpTo(_, _)
SeqsUpTo(S, n) ==
    IF n = 0 THEN {<<>>}
    ELSE LET shorter == SeqsUpTo(S, n - 1)
         IN  shorter \cup {Append(s, x) : s \in shorter, x \in S}

-----------------------------------------------------------------------------
(* The calls.  The process is idle (op = "none") between calls; a call     *)
(* runs to completion and Return hands its result to the caller.           *)

\* a register request that has not arrived yet.
NoRequest == [pc |-> "idle", email |-> "", status |-> 0]

NoCall == [made |-> FALSE, args |-> <<>>, result |-> <<>>, rng_before |-> 0]

Init ==
    /\ op = "none"
    /\ args = <<>>
    /\ result = <<>>
    /\ error = "none"
    /\ rng = 0
    /\ rng_before = rng
    /\ first_mc = NoCall
    /\ db = <<>>
    /\ now = 0
    /\ users = <<>>
    /\ requests = [request \in 1..MaxRequests |-> NoRequest]

Return ==
    /\ op # "none"
    /\ op' = "none"
    /\ args' = <<>>
    /\ result' = <<>>
    /\ error' = "none"
    /\ rng_before' = rng
    /\ UNCHANGED <<rng, first_mc, db, now, users, requests>>

CallCompoundGrowth(principal, annual_rate, annual_investment, years, monthly_sip, step_up_percentage) ==
    /\ op = "none"
    /\ op' = "calculate_compound_growth"
    /\ args' = [principal |-> principal, annual_rate |-> annual_rate,
                annual_investment |-> annual_investment, years |-> years,
                monthly_sip |-> monthly_sip,
                step_up_percentage |-> step_up_percentage]
    /\ result' = calculate_compound_growth(principal, annual_rate,
                     annual_investment, years, monthly_sip,
                     step_up_percentage)
    /\ error' = "none"
    /\ rng_before' = rng
    /\ UNCHANGED <<rng, first_mc, db, now, users, requests>>

CallProjections(projections) ==
    /\ op = "none"
    /\ op' = "calculate_projections"
    /\ args' = projections
    /\ result' = calculate_projections(projections)
    /\ error' = "none"
    /\ rng_before' = rng
    /\ UNCHANGED <<rng, first_mc, db, now, users, requests>>

Next ==
    \/ \E principal \in Principals, annual_rate \in Rates,
          annual_investment \in Investments, years \in 1..MaxYears,
          monthly_sip \in Sips, step_up_percentage \in StepUps :
            /\ Fits(annual_rate, years)
            /\ CallCompoundGrowth(principal, annual_rate, annual_investment,
                                  years, monthly_sip, step_up_percentage)
    \/ \E projections \in SeqsUpTo(ProjectionInputs, MaxInputs) :
            CallProjections(projections)
    \/ Return

\* The projector and the aggregator.
Spec == Init /\ [][Next]_vars

-----------------------------------------------------------------------------
(* The analytics calls.                                                    *)

CallMonteCarlo(initial_value, annual_return, volatility, annual_investment, years, simulations) ==
    LET call == run_monte_carlo_simulation(rng, initial_value, annual_return,
                    volatility, annual_investment, years, simulations)
        arguments == [initial_value |-> initial_value,
                      annual_return |-> annual_return,
                      volatility |-> volatility,
                      annual_investment |-> annual_investment,
                      years |-> years, simulations |-> simulations]
    IN  /\ op = "none"
        /\ op' = "run_monte_carlo_simulation"
        /\ args' = arguments
        /\ result' = call.result
        /\ error' = call.raised
        /\ rng' = call.rng
        /\ rng_before' = rng
        /\ first_mc' = IF first_mc.made THEN first_mc
                       ELSE [made |-> TRUE, args |-> arguments,
                             result |-> call.result, rng_before |-> rng]
        /\ UNCHANGED <<db, now, users, requests>>

CallHealthScore(assets) ==
    LET dashboard == DashboardSummary(assets)
        call == calculate_financial_health_score(assets, dashboard)
    IN  /\ op = "none"
        /\ op' = "calculate_financial_health_score"
        /\ args' = [assets |-> assets, dashboard |-> dashboard]
        /\ result' = call.result
        /\ error' = call.raised
        /\ rng_before' = rng
        /\ UNCHANGED <<rng, first_mc, db, now, users, requests>>

CallPerformanceAttribution(assets) ==
    LET dashboard == DashboardSummary(assets)
        call == calculate_performance_attribution(rng, assets, dashboard)
    IN  /\ op = "none"
        /\ op' = "calculate_performance_attribution"
        /\ args' = [assets |-> assets, dashboard |-> dashboard]
        /\ result' = call.result
        /\ error' = "none"
        /\ rng' = call.rng
        /\ rng_before' = rng
        /\ UNCHANGED <<first_mc, db, now, users, requests>>

CallTaxOptimization(assets, current_date) ==
    /\ op = "none"
    /\ op' = "calculate_tax_optimization"
    /\ args' = [assets |-> assets, current_date |-> current_date]
    /\ result' = calculate_tax_optimization(assets, current_date)
    /\ error' = "none"
    /\ rng_before' = rng
    /\ UNCHANGED <<rng, first_mc, db, now, users, requests>>

Asset(name, asset_type, purchase_value, current_value, purchase_date, is_sip_active) ==
    [name |-> name, asset_type |-> asset_type,
     purchase_value |-> R(purchase_value),
     current_value |-> R(current_value),
     purchase_date |-> purchase_date, is_sip_active |-> is_sip_active]

\* Inputs of the analytics specification.
SimulationInputs ==
    [initial_value : {R(100)}, annual_return : {R(10)},
     volatility : {R(0), R(20)}, annual_investment : {R(10)},
     years : 1..MaxSimYears, simulations : 1..MaxSims]

SampleAssets ==
    {Asset("A", "stocks", 100000, 400000, 0, TRUE),
     Asset("B", "gold", 400000, 100000, 700, FALSE)}

SamplePortfolios == SeqsUpTo(SampleAssets, 2)

SampleDates == {1000}

\* the process imports numpy with its generator seeded from the system's
\* entropy: any state.
InitAnalytics ==
    /\ op = "none"
    /\ args = <<>>
    /\ result = <<>>
    /\ error = "none"
    /\ rng \in RngStates
    /\ rng_before = rng
    /\ first_mc = NoCall
    /\ db = <<>>
    /\ now = 0
    /\ users = <<>>
    /\ requests = [request \in 1..MaxRequests |-> NoRequest]

NextAnalytics ==
    \/ \E years \in 1..2 :
            CallCompoundGrowth(R(10), R(1200), R(3), years, R(5), R(20))
    \/ \E a \in SimulationInputs :
            CallMonteCarlo(a.initial_value, a.annual_return, a.volatility,
                           a.annual_investment, a.years, a.simulations)
    \/ \E assets \in SamplePortfolios : CallHealthScore(assets)
    \/ \E assets \in SamplePortfolios : CallPerformanceAttribution(assets)
    \/ \E assets \in SamplePortfolios, current_date \in SampleDates :
            CallTaxOptimization(assets, current_date)
    \/ Return

\* The five analytics functions and the generator they share.
SpecAnalytics == InitAnalytics /\ [][NextAnalytics]_vars

\* Inputs of the health score specification.
HealthAssets ==
    {Asset("A", "stocks", 100000, 400000, 0, TRUE),
     Asset("B", "stocks", 100000, 108000, 0, FALSE),
     Asset("C", "stocks", 100000, 0, 0, FALSE),
     Asset("D", "cryptocurrency", 100000, 112000, 0, TRUE),
     Asset("E", "cryptocurrency", 5000000, 12000000, 0, FALSE),
     Asset("F", "gold", 100000, 100000, 0, TRUE),
     Asset("G", "gold", 400000, 100000, 0, FALSE),
     Asset("H", "fixed_deposits", 400000, 400000, 0, TRUE),
     Asset("I", "real_estate", 5000000, 5000000, 0, FALSE),
     Asset("J", "mutual_funds", 100000, 100000, 0, TRUE),
     Asset("K", "others", 0, 0, 0, FALSE),
     Asset("L", "others", 100000, -400000, 0, FALSE)}

NextHealth ==
    \/ \E assets \in SeqsUpTo(HealthAssets, MaxAssets) :
            CallHealthScore(assets)
    \/ Return

\* The health scorer.
SpecHealth == Init /\ [][NextHealth]_vars

\* Inputs of the specification of horizons: years of either sign.
NonPositiveYears == {-1, 0}

NextYears ==
    \/ \E principal \in Principals, annual_rate \in {R(0), R(1200)}, annual_investment \in Investments, years \in NonPositiveYears \cup 1..MaxYears, monthly_sip \in Sips, step_up_percentage \in {R(0), R(20)} :
            /\ Fits(annual_rate, years)
            /\ CallCompoundGrowth(principal, annual_rate, annual_investment,
                                  years, monthly_sip, step_up_percentage)
    \/ \E a \in SimulationInputs, years \in NonPositiveYears \cup 1..MaxSimYears :
            CallMonteCarlo(a.initial_value, a.annual_return, a.volatility,
                           a.annual_investment, years, a.simulations)
    \/ Return

\* The projector and the simulator, called with any horizon.
SpecYears == Init /\ [][NextYears]_vars

\* Inputs of the tax specification: datetime.now() as a day number, and
\* assets bought a number of days before it.
TaxToday == 2000

Held(name, asset_type, purchase_value, current_value, days) ==
    Asset(name, asset_type, purchase_value, current_value, TaxToday - days, FALSE)

TaxAssets ==
    {Held("S365", "stocks", 10000, 12000, 365),
     Held("S366", "stocks", 10000, 12000, 366),
     Held("S400", "stocks", 10000, 12000, 400),
     Held("M365", "mutual_funds", 10000, 12000, 365),
     Held("M366", "mutual_funds", 10000, 12000, 366),
     Held("C365", "cryptocurrency", 10000, 12000, 365),
     Held("C366", "cryptocurrency", 10000, 12000, 366),
     Held("G1095", "gold", 10000, 12000, 1095),
     Held("G1096", "gold", 10000, 12000, 1096),
     Held("R1095", "real_estate", 10000, 12000, 1095),
     Held("R1096", "real_estate", 10000, 12000, 1096),
     Held("F1095", "fixed_deposits", 10000, 12000, 1095),
     Held("F1096", "fixed_deposits", 10000, 12000, 1096),
     Held("O1095", "others", 10000, 12000, 1095),
     Held("O1096", "others", 10000, 12000, 1096),
     Held("G366", "gold", 10000, 12000, 366),
     Held("Sbig", "stocks", 100000, 400000, 1096),
     Held("Sloss", "stocks", 400000, 100000, 400),
     Held("Gloss", "gold", 12000, 10000, 1096),
     Held("Sflat", "stocks", 10000, 10000, 400),
     Held("S275", "stocks", 10000, 12000, 275),
     Held("S274", "stocks", 10000, 12000, 274),
     Held("G1005", "gold", 10000, 12000, 1005),
     Held("M100", "mutual_funds", 10000, 13000, 100)}

NextTax ==
    \/ \E assets \in SeqsUpTo(TaxAssets, MaxTaxAssets) :
            CallTaxOptimization(assets, TaxToday)
    \/ Return

\* The tax optimizer.
SpecTax == Init /\ [][NextTax]_vars

\* Inputs of the performance attribution specification: two assets share the
\* name "A" (nothing in create_asset makes names unique), one was bought for
\* nothing, one has not moved.
PerformanceAssets ==
    {Asset("A", "stocks", 100000, 400000, 0, TRUE),
     Asset("A", "gold", 400000, 100000, 0, FALSE),
     Asset("B", "stocks", 100000, 108000, 0, FALSE),
     Asset("C", "real_estate", 0, 100000, 0, FALSE),
     Asset("D", "gold", 100000, 100000, 0, FALSE)}

NextPerformance ==
    \/ \E assets \in SeqsUpTo(PerformanceAssets, MaxAssets) :
            CallPerformanceAttribution(assets)
    \/ Return

\* Performance attribution.
SpecPerformance == Init /\ [][NextPerformance]_vars

\* Twelve holdings under distinct names: six with a positive return (two of
\* them with the same return), six without.
RankingAssets ==
    <<Asset("G30", "stocks", 100000, 130000, 0, FALSE),
      Asset("L20", "gold", 100000, 80000, 0, FALSE),
      Asset("G10", "stocks", 100000, 110000, 0, FALSE),
      Asset("L0", "gold", 100000, 100000, 0, FALSE),
      Asset("G60", "stocks", 100000, 160000, 0, FALSE),
      Asset("L50", "stocks", 100000, 50000, 0, FALSE),
      Asset("G30b", "gold", 200000, 260000, 0, FALSE),
      Asset("L10", "stocks", 100000, 90000, 0, FALSE),
      Asset("G20", "stocks", 100000, 120000, 0, FALSE),
      Asset("Lfree", "gold", 0, 100000, 0, FALSE),
      Asset("G50", "gold", 100000, 150000, 0, FALSE),
      Asset("L30", "stocks", 100000, 70000, 0, FALSE)>>

\* the first `length` holdings of RankingAssets read from position `start`
\* on, wrapping around.
Window(start, length) ==
    [i \in 1..length |->
        RankingAssets[((start + i - 2) % Len(RankingAssets)) + 1]]

NextRanking ==
    \/ \E start \in 1..Len(RankingAssets), length \in 0..Len(RankingAssets) :
            CallPerformanceAttribution(Window(start, length))
    \/ Return

\* Performance attribution of portfolios with more than five gainers or
\* more than five other holdings.
SpecRanking == Init /\ [][NextRanking]_vars

-----------------------------------------------------------------------------
(* The calls of the store's endpoints.  Each runs at the time `now` of the *)
(* clock, which then moves on.                                             *)

CallCreateAsset(asset_data, user_id, prices) ==
    LET asset == create_asset(asset_data, user_id, prices, now)
    IN  /\ op = "none"
        /\ now < MaxCalls
        /\ Len(db) < MaxStored
        /\ op' = "create_asset"
        /\ args' = [asset_data |-> asset_data, user_id |-> user_id,
                    prices |-> prices, time |-> now]
        /\ result' = asset
        /\ error' = "none"
        /\ db' = Append(db, asset)
        /\ now' = now + 1
        /\ rng_before' = rng
        /\ UNCHANGED <<rng, first_mc, users, requests>>

CallUpdateAsset(asset_id, asset_data, user_id) ==
    LET call == update_asset(db, asset_id, asset_data, user_id, now)
    IN  /\ op = "none"
        /\ now < MaxCalls
        /\ op' = "update_asset"
        /\ args' = [asset_id |-> asset_id, asset_data |-> asset_data,
                    user_id |-> user_id, time |-> now]
        /\ result' = call.result
        /\ error' = IF call.status = 404 THEN "404" ELSE "none"
        /\ db' = call.db
        /\ now' = now + 1
        /\ rng_before' = rng
        /\ UNCHANGED <<rng, first_mc, users, requests>>

CallGetDashboard(user_id, prices) ==
    LET call == get_dashboard(db, user_id, prices)
    IN  /\ op = "none"
        /\ now < MaxCalls
        /\ op' = "get_dashboard"
        /\ args' = [user_id |-> user_id, prices |-> prices, time |-> now]
        /\ result' = call.result
        /\ error' = "none"
        /\ db' = call.db
        /\ now' = now + 1
        /\ rng_before' = rng
        /\ UNCHANGED <<rng, first_mc, users, requests>>

\* Inputs of the store specification.
Users == {"u1", "u2"}

NewAsset(asset_type, metadata) ==
    [asset_type |-> asset_type, name |-> "N",
     purchase_value |-> R(250000), current_value |-> R(500),
     purchase_date |-> 0, metadata |-> metadata, is_sip_active |-> FALSE]

CreateInputs ==
    {NewAsset("gold", [weight_grams |-> 10]),
     NewAsset("gold", [weight_grams |-> 10, purity |-> "24k"]),
     NewAsset("gold", [weight_grams |-> 10, purity |-> "22k"]),
     NewAsset("gold", [weight_grams |-> 10, purity |-> "18k"]),
     NewAsset("gold", [weight_grams |-> 0, purity |-> "24k"]),
     NewAsset("gold", <<>>),
     NewAsset("stocks", [weight_grams |-> 10, purity |-> "24k"]),
     NewAsset("stocks", <<>>)}

UpdateInputs ==
    {[name |-> "M"],
     [current_value |-> R(700)],
     [metadata |-> [weight_grams |-> 20, purity |-> "22k"]]}

PriceOutcomes(time) == {NoPrices, GoldPrices(time)}

NextStore ==
    \/ \E asset_data \in CreateInputs, user_id \in Users, prices \in PriceOutcomes(now) :
            CallCreateAsset(asset_data, user_id, prices)
    \/ \E asset_id \in 1..MaxCalls, asset_data \in UpdateInputs, user_id \in Users :
            CallUpdateAsset(asset_id, asset_data, user_id)
    \/ \E user_id \in Users, prices \in [1..Len(db) -> PriceOutcomes(now)] :
            CallGetDashboard(user_id, prices)
    \/ Return

\* The asset store and the gold price supplier.
SpecStore == Init /\ [][NextStore]_vars

CallGetAssets(user_id) ==
    /\ op = "none"
    /\ now < MaxCalls
    /\ op' = "get_assets"
    /\ args' = [user_id |-> user_id, time |-> now]
    /\ result' = get_assets(db, user_id)
    /\ error' = "none"
    /\ now' = now + 1
    /\ rng_before' = rng
    /\ UNCHANGED <<rng, first_mc, db, users, requests>>

CallGetAsset(asset_id, user_id) ==
    LET call == get_asset(db, asset_id, user_id)
    IN  /\ op = "none"
        /\ now < MaxCalls
        /\ op' = "get_asset"
        /\ args' = [asset_id |-> asset_id, user_id |-> user_id, time |-> now]
        /\ result' = call.result
        /\ error' = IF call.status = 404 THEN "404" ELSE "none"
        /\ now' = now + 1
        /\ rng_before' = rng
        /\ UNCHANGED <<rng, first_mc, db, users, requests>>

CallDeleteAsset(asset_id, user_id) ==
    LET call == delete_asset(db, asset_id, user_id)
    IN  /\ op = "none"
        /\ now < MaxCalls
        /\ op' = "delete_asset"
        /\ args' = [asset_id |-> asset_id, user_id |-> user_id, time |-> now]
        /\ result' = call.result
        /\ error' = IF call.status = 404 THEN "404" ELSE "none"
        /\ db' = call.db
        /\ now' = now + 1
        /\ rng_before' = rng
        /\ UNCHANGED <<rng, first_mc, users, requests>>

\* Inputs of the specification of owners: a gold holding that the dashboard
\* reprices and a stock holding, one change of value.
OwnerCreates ==
    {NewAsset("gold", [weight_grams |-> 10]), NewAsset("stocks", <<>>)}

OwnerUpdates == {[current_value |-> R(700)]}

NextOwners ==
    \/ \E asset_data \in OwnerCreates, user_id \in Users, prices \in PriceOutcomes(now) :
            CallCreateAsset(asset_data, user_id, prices)
    \/ \E asset_id \in 1..MaxCalls, asset_data \in OwnerUpdates, user_id \in Users :
            CallUpdateAsset(asset_id, asset_data, user_id)
    \/ \E user_id \in Users, prices \in [1..Len(db) -> PriceOutcomes(now)] :
            CallGetDashboard(user_id, prices)
    \/ \E user_id \in Users : CallGetAssets(user_id)
    \/ \E asset_id \in 1..MaxCalls, user_id \in Users :
            CallGetAsset(asset_id, user_id)
    \/ \E asset_id \in 1..MaxCalls, user_id \in Users :
            CallDeleteAsset(asset_id, user_id)
    \/ Return

\* The asset endpoints called by two users.
SpecOwners == Init /\ [][NextOwners]_vars

\* register up to its first await's answer: find_one has looked for a user
\* with the email; if there is one the handler raises 400, otherwise it goes
\* on to build the user.
RegisterFind(request, email) ==
    LET existing_user == \E i \in 1..Len(users) : users[i].email = email
    IN  /\ requests[request].pc = "idle"
        /\ requests' = [requests EXCEPT ![request] =
                           IF existing_user
                           THEN [pc |-> "done", email |-> email, status |-> 400]
                           ELSE [pc |-> "insert", email |-> email, status |-> 0]]
        /\ UNCHANGED <<op, args, result, error, rng, rng_before, first_mc,
                       db, now, users>>

\* the rest of register: the user is inserted and the token returned.
RegisterInsert(request) ==
    /\ requests[request].pc = "insert"
    /\ users' = Append(users, [id |-> request,
                               email |-> requests[request].email])
    /\ requests' = [requests EXCEPT ![request] =
                       [pc |-> "done", email |-> requests[request].email,
                        status |-> 200]]
    /\ UNCHANGED <<op, args, result, error, rng, rng_before, first_mc,
                   db, now>>

Emails == {"a@example.com", "b@example.com"}

NextRegister ==
    \/ \E request \in 1..MaxRequests, email \in Emails :
            RegisterFind(request, email)
    \/ \E request \in 1..MaxRequests : RegisterInsert(request)

\* Concurrent register requests: the event loop runs another handler while
\* one awaits the database.
SpecRegister == Init /\ [][NextRegister]_vars

-----------------------------------------------------------------------------
(* Claims about the projector and the aggregator.                          *)

Fields == {"total_value", "investment_added", "growth", "sip_contribution",
           "lumpsum_contribution"}

\* the ProjectionResult invariant of a series that starts from `start`.
SeriesInvariant(series, start) ==
    \A y \in 1..Len(series) :
        series[y].total_value =
            RAdd(RAdd(RAdd(IF y = 1 THEN start ELSE series[y - 1].total_value,
                           series[y].sip_contribution),
                      series[y].lumpsum_contribution),
                 series[y].growth)

\* C1: in every result of calculate_compound_growth, each year's total_value
\* is the previous year's total_value (the principal for year 1) plus the
\* year's sip_contribution, lumpsum_contribution and growth.
C1_ProjectorInvariant ==
    op = "calculate_compound_growth" =>
        /\ Len(result) = args.years
        /\ SeriesInvariant(result, args.principal)

C1_Witness ==
    /\ op = "calculate_compound_growth"
    /\ Len(result) >= 2
    /\ RGt(result[2].growth, Zero)
    /\ RGt(result[2].sip_contribution, Zero)
    /\ RGt(result[2].lumpsum_contribution, Zero)

\* C2: with monthly_sip > 0 and step_up_percentage > 0 the SIP contribution
\* of year y is 12 x monthly_sip x (1 + step_up/100)^(y-1).
C2_StepUpLaw ==
    (/\ op = "calculate_compound_growth"
     /\ RGt(args.monthly_sip, Zero)
     /\ RGt(args.step_up_percentage, Zero)) =>
        \A y \in 1..Len(result) :
            result[y].sip_contribution =
                RMul(RMul(R(12), args.monthly_sip),
                     RPow(RAdd(One, RDiv(args.step_up_percentage, R(100))),
                          y - 1))

\* 5 a month stepped up by 20% a year: 60, 72, 86.4.
C2_Witness ==
    /\ op = "calculate_compound_growth"
    /\ args.monthly_sip = R(5)
    /\ args.step_up_percentage = R(20)
    /\ Len(result) >= 3
    /\ result[1].sip_contribution = R(60)
    /\ result[2].sip_contribution = R(72)
    /\ result[3].sip_contribution = <<432, 5>>

\* C3: calculate_projections of the empty list returns exactly 10 records,
\* for the years 1..10 in order, with every amount 0.
C3_EmptyRequest ==
    (op = "calculate_projections" /\ args = <<>>) =>
        /\ Len(result) = 10
        /\ \A y \in 1..10 :
            /\ result[y].year = y
            /\ \A f \in Fields : result[y][f] = Zero

C3_Witness ==
    /\ op = "calculate_projections"
    /\ args = <<>>
    /\ Len(result) = 10

\* what calculate_compound_growth gives for each input of the list.
RECURSIVE ProjectionsOf(_)
ProjectionsOf(projections) ==
    IF projections = <<>> THEN <<>>
    ELSE <<ProjectionOf(projections[1])>> \o ProjectionsOf(Tail(projections))

\* the sum of field f of year y over the series of `each` numbered in `which`.
RECURSIVE SumOver(_, _, _, _)
SumOver(each, which, y, f) ==
    IF which = {} THEN Zero
    ELSE LET i == CHOOSE j \in which : TRUE
         IN  RAdd(each[i][y][f], SumOver(each, which \ {i}, y, f))

SameHorizon(projections) ==
    \A i, j \in 1..Len(projections) : projections[i].years = projections[j].years

\* C4: for inputs that all have the horizon N, calculate_projections returns
\* N records and every field of every year is the sum, over all the inputs,
\* of what calculate_compound_growth gives for that input and year.
C4_ElementwiseSum ==
    (/\ op = "calculate_projections"
     /\ args # <<>>
     /\ SameHorizon(args)) =>
        /\ Len(result) = args[1].years
        /\ \A each \in {ProjectionsOf(args)} :
            \A y \in 1..args[1].years :
                /\ result[y].year = y
                /\ \A f \in Fields :
                    result[y][f] = SumOver(each, 1..Len(args), y, f)

C4_Witness ==
    /\ op = "calculate_projections"
    /\ Len(args) = 2
    /\ args[1] # args[2]
    /\ args[1].years = 2
    /\ args[2].years = 2
    /\ RGt(result[2].growth, Zero)
    /\ RGt(result[2].sip_contribution, Zero)

\* C5: for inputs with different horizons, calculate_projections returns one
\* record per year 1..max(years), and the record of year y sums exactly the
\* inputs whose own years >= y.
C5_ShorterHorizonStops ==
    (/\ op = "calculate_projections"
     /\ args # <<>>
     /\ ~SameHorizon(args)) =>
        /\ \E i \in 1..Len(args) :
            /\ Len(result) = args[i].years
            /\ \A j \in 1..Len(args) : args[j].years <= args[i].years
        /\ \A each \in {ProjectionsOf(args)} :
            \A y \in 1..Len(result) :
                /\ result[y].year = y
                /\ \A f \in Fields :
                    result[y][f] =
                        SumOver(each,
                                {i \in 1..Len(args) : args[i].years >= y},
                                y, f)

C5_Witness ==
    /\ op = "calculate_projections"
    /\ Len(args) = 2
    /\ args[1].years = 1
    /\ args[2].years = 3
    /\ Len(result) = 3
    /\ RGt(result[1].total_value, result[2].total_value)
    /\ result[2].total_value = ProjectionOf(args[2])[2].total_value

RECURSIVE SumCurrentValues(_)
SumCurrentValues(projections) ==
    IF projections = <<>> THEN Zero
    ELSE RAdd(projections[1].current_value,
              SumCurrentValues(Tail(projections)))

\* C6: the aggregated records of calculate_projections satisfy the
\* ProjectionResult invariant for every input list, with total_value(0) the
\* sum of the inputs' current values.
C6_AggregateInvariant ==
    op = "calculate_projections" =>
        SeriesInvariant(result, SumCurrentValues(args))

-----------------------------------------------------------------------------
(* Claims about the Monte Carlo simulator and the shared generator.        *)

\* C7: in every result of run_monte_carlo_simulation the percentile bands
\* are ordered in every year, p10 <= p25 <= p50 <= p75 <= p90, and
\* final_values[worst_case] <= final_values[best_case].
C7_BandsOrdered ==
    op = "run_monte_carlo_simulation" =>
        /\ \A y \in 1..args.years :
            /\ RLe(result.percentile_10[y], result.percentile_25[y])
            /\ RLe(result.percentile_25[y], result.percentile_50[y])
            /\ RLe(result.percentile_50[y], result.percentile_75[y])
            /\ RLe(result.percentile_75[y], result.percentile_90[y])
        /\ RLe(result.final_values.worst_case, result.final_values.best_case)

C7_Witness ==
    /\ op = "run_monte_carlo_simulation"
    /\ args.simulations >= 3
    /\ args.years >= 2
    /\ RLt(result.percentile_10[2], result.percentile_25[2])
    /\ RLt(result.percentile_50[2], result.percentile_90[2])
    /\ RLt(result.final_values.worst_case, result.final_values.best_case)

\* C8: a call of run_monte_carlo_simulation with the arguments of an earlier
\* call returns the result of that call, whatever ran in between and
\* whatever state the generator was in.
C8_Repeatable ==
    (/\ op = "run_monte_carlo_simulation"
     /\ first_mc.made
     /\ first_mc.args = args) =>
        result = first_mc.result

\* a later call that found the generator in another state than the first.
C8_Witness ==
    /\ op = "run_monte_carlo_simulation"
    /\ first_mc.made
    /\ first_mc.args = args
    /\ first_mc.rng_before # rng_before
    /\ args.simulations >= 2
    /\ RLt(result.final_values.worst_case, result.final_values.best_case)
    /\ result = first_mc.result

\* C9: no analytics call changes process-wide state: the global random
\* generator is the same after every step as before it.
C9_NoSharedStateMutated == [][rng' = rng]_vars

-----------------------------------------------------------------------------
(* Claims about the health scorer.                                         *)

NonNegative(assets) ==
    \A i \in 1..Len(assets) :
        /\ RGe(assets[i].purchase_value, Zero)
        /\ RGe(assets[i].current_value, Zero)

-----------------------------------------------------------------------------
(* Claims about degenerate portfolios.                                     *)

\* C11: with zero assets (empty asset list, all-zero dashboard with an empty
\* allocation map) every analyzer returns without raising: the health scorer
\* gives diversification 0; the tax optimizer gives zero gains, zero
\* liabilities, effective rate 0 and no suggestions; performance attribution
\* gives empty contributions, sectors, performer lists and correlation
\* matrix.
C11_ZeroAssets ==
    (/\ op \in {"calculate_financial_health_score", "calculate_performance_attribution", "calculate_tax_optimization"}
     /\ args.assets = <<>>) =>
        /\ error = "none"
        /\ op = "calculate_financial_health_score" =>
            /\ args.dashboard.asset_allocation.keys = <<>>
            /\ result.category_scores.diversification = 0
        /\ op = "calculate_tax_optimization" =>
            /\ result.current_year_tax.ltcg_gains = Zero
            /\ result.current_year_tax.stcg_gains = Zero
            /\ result.ltcg_liability = Zero
            /\ result.stcg_liability = Zero
            /\ result.total_tax_liability = Zero
            /\ result.effective_tax_rate = Zero
            /\ result.tax_saving_opportunities = <<>>
            /\ result.harvesting_suggestions = <<>>
        /\ op = "calculate_performance_attribution" =>
            /\ DOMAIN result.asset_contributions = {}
            /\ DOMAIN result.time_weighted_returns = {}
            /\ DOMAIN result.sector_analysis = {}
            /\ result.best_performers = <<>>
            /\ result.worst_performers = <<>>
            /\ DOMAIN result.correlation_matrix = {}

\* the health scorer has returned for a user without assets.
C11_Witness ==
    /\ op = "calculate_financial_health_score"
    /\ args.assets = <<>>
    /\ args.dashboard.total_net_worth = Zero
    /\ error = "none"
    /\ result.category_scores.diversification = 0
    /\ result.category_scores.risk_management = 100

\* C12: no ratio fails on a zero denominator: for every asset list, also one
\* whose assets all have current_value 0 (non-empty allocation map,
\* total_net_worth 0), calculate_financial_health_score does not fail with a
\* division by zero.
C12_NoDivisionByZero ==
    op = "calculate_financial_health_score" => error # "ZeroDivisionError"

-----------------------------------------------------------------------------
(* Claims about the horizon argument.                                      *)

\* C13: calculate_compound_growth and run_monte_carlo_simulation reject a
\* non-positive years argument with an error; neither returns a result (such
\* as an empty series) for years <= 0.
C13_NonPositiveYearsRejected ==
    (/\ op \in {"calculate_compound_growth", "run_monte_carlo_simulation"}
     /\ args.years <= 0) =>
        error # "none"

-----------------------------------------------------------------------------
(* Claims about the tax optimizer.                                         *)

\* the holding threshold the claims state for an asset type.
StatedThreshold(asset_type) ==
    IF asset_type \in {"stocks", "mutual_funds", "cryptocurrency"}
    THEN 365 ELSE 1095

\* the sum of the positive gains of the assets that are (long_term) or are
\* not held for more than the stated threshold.
RECURSIVE StatedGains(_, _, _)
StatedGains(assets, current_date, long_term) ==
    IF assets = <<>> THEN Zero
    ELSE LET asset == assets[1]
             gain == RSub(asset.current_value, asset.purchase_value)
             days == current_date - asset.purchase_date
             counted == /\ RGt(gain, Zero)
                        /\ (days > StatedThreshold(asset.asset_type)) = long_term
         IN  RAdd(IF counted THEN gain ELSE Zero,
                  StatedGains(Tail(assets), current_date, long_term))

\* C14: an asset with a positive gain is counted in total LTCG exactly when
\* its holding days exceed its threshold (365 for stocks, mutual_funds,
\* cryptocurrency; 1095 for every other type) and in total STCG otherwise.
C14_Classification ==
    op = "calculate_tax_optimization" =>
        /\ result.current_year_tax.ltcg_gains
               = StatedGains(args.assets, args.current_date, TRUE)
        /\ result.current_year_tax.stcg_gains
               = StatedGains(args.assets, args.current_date, FALSE)

\* gold held threshold + 1 days next to gold held threshold days: one gain
\* is long-term, the other short-term.
C14_Witness ==
    /\ op = "calculate_tax_optimization"
    /\ Len(args.assets) = 2
    /\ args.assets[1].name = "G1096"
    /\ args.assets[2].name = "G1095"
    /\ result.current_year_tax.ltcg_gains = R(2000)
    /\ result.current_year_tax.stcg_gains = R(2000)

HasLoss(asset) == RLt(asset.current_value, asset.purchase_value)

RECURSIVE PositiveGains(_)
PositiveGains(assets) ==
    IF assets = <<>> THEN Zero
    ELSE LET gain == RSub(assets[1].current_value, assets[1].purchase_value)
         IN  RAdd(IF RGt(gain, Zero) THEN gain ELSE Zero,
                  PositiveGains(Tail(assets)))

\* C15: an asset with a loss changes neither total LTCG nor total STCG nor
\* any liability: the totals and liabilities are those of the same list
\* without its loss-making assets, and ltcg_gains + stcg_gains is the sum of
\* the positive gains, whatever the order of the assets.
C15_LossesNeverOffset ==
    op = "calculate_tax_optimization" =>
        \A without \in {calculate_tax_optimization(SelectSeq(args.assets, LAMBDA a : ~HasLoss(a)), args.current_date)} :
            /\ result.current_year_tax.ltcg_gains = without.current_year_tax.ltcg_gains
            /\ result.current_year_tax.stcg_gains = without.current_year_tax.stcg_gains
            /\ result.ltcg_liability = without.ltcg_liability
            /\ result.stcg_liability = without.stcg_liability
            /\ result.total_tax_liability = without.total_tax_liability
            /\ RAdd(result.current_year_tax.ltcg_gains,
                    result.current_year_tax.stcg_gains)
                   = PositiveGains(args.assets)

\* a loss of 300000 listed before a long-term gain of 300000: the gain is
\* taxed in full.
C15_Witness ==
    /\ op = "calculate_tax_optimization"
    /\ Len(args.assets) = 2
    /\ args.assets[1].name = "Sloss"
    /\ args.assets[2].name = "Sbig"
    /\ result.current_year_tax.ltcg_gains = R(300000)
    /\ result.current_year_tax.stcg_gains = Zero
    /\ result.ltcg_liability = R(21875)

\* C16: ltcg_liability = 12.5% of max(0, total_ltcg - 125000), stcg_liability
\* = 20% of total_stcg, total_tax_liability = their sum, effective_tax_rate =
\* total_tax_liability / (total_ltcg + total_stcg) x 100, or 0 without gains;
\* a single long-term gain not above 125000 (stocks 10000 -> 12000 held 400
\* days) gives ltcg_liability 0.
C16_Liabilities ==
    op = "calculate_tax_optimization" =>
        LET total_ltcg == result.current_year_tax.ltcg_gains
            total_stcg == result.current_year_tax.stcg_gains
            total_gains == RAdd(total_ltcg, total_stcg)
        IN  /\ result.ltcg_liability
                   = RMul(<<125, 1000>>, RMax(Zero, RSub(total_ltcg, R(125000))))
            /\ result.stcg_liability = RMul(<<20, 100>>, total_stcg)
            /\ result.total_tax_liability
                   = RAdd(result.ltcg_liability, result.stcg_liability)
            /\ result.effective_tax_rate
                   = IF total_gains = Zero THEN Zero
                     ELSE RMul(RDiv(result.total_tax_liability, total_gains), R(100))
            /\ (/\ Len(args.assets) = 1
                /\ args.assets[1].name = "S400") =>
                    /\ total_ltcg = R(2000)
                    /\ result.ltcg_liability = Zero

\* a long-term gain of 300000 and a short-term gain of 3000: 12.5% of 175000
\* plus 20% of 3000.
C16_Witness ==
    /\ op = "calculate_tax_optimization"
    /\ result.current_year_tax.ltcg_gains = R(300000)
    /\ result.current_year_tax.stcg_gains = R(3000)
    /\ result.ltcg_liability = R(21875)
    /\ result.stcg_liability = R(600)
    /\ result.total_tax_liability = R(22475)
    /\ result.effective_tax_rate = RMul(RDiv(R(22475), R(303000)), R(100))

-----------------------------------------------------------------------------
(* Claims about performance attribution.                                   *)

\* the sum of the values of a dict.
RECURSIVE SumValues(_, _)
SumValues(dict, keys) ==
    IF keys = {} THEN Zero
    ELSE LET key == CHOOSE k \in keys : TRUE
         IN  RAdd(dict[key], SumValues(dict, keys \ {key}))

\* C17: for every asset list with total_investment > 0 the values of
\* asset_contributions sum to total_gain_loss / total_investment x 100, also
\* when several assets share a name.
C17_ContributionsSum ==
    (/\ op = "calculate_performance_attribution"
     /\ RGt(args.dashboard.total_investment, Zero)) =>
        SumValues(result.asset_contributions, DOMAIN result.asset_contributions)
            = RMul(RDiv(args.dashboard.total_gain_loss,
                        args.dashboard.total_investment), R(100))

-----------------------------------------------------------------------------
(* Claims about the asset store and the gold price lookup.                 *)

Unavailable(prices) == \A i \in DOMAIN prices : ~prices[i].available

\* C18: when get_gold_prices returns no price, create_asset and
\* get_dashboard complete without error: create_asset stores the asset with
\* the current_value it was supplied with, and get_dashboard leaves the store
\* as it was, so every gold asset keeps the current_value last stored.
C18_PricesUnavailable ==
    [][/\ (op' = "create_asset" /\ ~args'.prices.available) =>
            /\ error' = "none"
            /\ result'.current_value = args'.asset_data.current_value
            /\ db' = Append(db, result')
       /\ (op' = "get_dashboard" /\ Unavailable(args'.prices)) =>
            /\ error' = "none"
            /\ db' = db
            /\ result'.total_net_worth
                   = SumOf(OwnedBy(db, args'.user_id), "current_value")]_vars

\* get_dashboard has run without prices for a user who owns a gold asset
\* with a weight, created without prices as well: it still has the supplied
\* value.
C18_Witness ==
    /\ op = "get_dashboard"
    /\ Unavailable(args.prices)
    /\ error = "none"
    /\ \E i \in 1..Len(db) :
        /\ db[i].user_id = args.user_id
        /\ db[i].asset_type = "gold"
        /\ db[i].metadata = [weight_grams |-> 10, purity |-> "22k"]
        /\ db[i].current_value = R(500)
    /\ RGe(result.total_net_worth, R(500))

\* C19: every operation that changes a stored asset refreshes its
\* updated_at: after update_asset, and after the gold price refresh that
\* get_dashboard writes to the store, a changed asset's updated_at is the
\* time of that call.
C19_UpdatedAtRefreshed ==
    [][\A i \in 1..Len(db) :
          (i <= Len(db') /\ db'[i] # db[i]) => db'[i].updated_at = now]_vars

\* C20: create_asset for a gold asset whose metadata has a non-zero
\* weight_grams, when a gold price is available, stores and returns
\* current_value = weight_grams x rate (the 24k rate when purity is "24k" or
\* absent, the 22k rate for any other purity) in place of the supplied value,
\* and marks metadata auto_calculated; for every other asset the supplied
\* current_value is stored unchanged.
C20_GoldAutoValue ==
    op = "create_asset" =>
        LET data == args.asset_data
            weighed == /\ data.asset_type = "gold"
                       /\ "weight_grams" \in DOMAIN data.metadata
                       /\ data.metadata.weight_grams # 0
            stated_rate ==
                IF "purity" \notin DOMAIN data.metadata THEN 6350
                ELSE IF data.metadata.purity = "24k" THEN 6350
                ELSE 5850
        IN  /\ error = "none"
            /\ db[Len(db)] = result
            /\ (weighed /\ args.prices.available) =>
                /\ result.current_value
                       = R(data.metadata.weight_grams * stated_rate)
                /\ result.metadata.auto_calculated = TRUE
            /\ ~weighed => result.current_value = data.current_value

\* 10 grams of 18k gold, supplied with the value 500, is stored at the 22k
\* rate.
C20_Witness ==
    /\ op = "create_asset"
    /\ args.prices.available
    /\ args.asset_data.asset_type = "gold"
    /\ args.asset_data.metadata = [weight_grams |-> 10, purity |-> "18k"]
    /\ args.asset_data.current_value = R(500)
    /\ result.current_value = R(58500)
    /\ result.metadata.auto_calculated = TRUE
    /\ db[Len(db)].current_value = R(58500)

-----------------------------------------------------------------------------
(* Claims about the tax optimizer's suggestions.                           *)

\* the assets with a loss, in the order of the list.
WithLoss(assets) == SelectSeq(assets, HasLoss)

\* C21: calculate_tax_optimization emits exactly one loss-harvesting
\* suggestion for each asset with a loss (current_value < purchase_value),
\* with loss_amount = purchase_value - current_value and tax_benefit = 30% of
\* it, and none for an asset without a loss (an asset whose current_value
\* equals its purchase_value included).
C21_HarvestingPerLoss ==
    op = "calculate_tax_optimization" =>
        \A losers \in {WithLoss(args.assets)} :
            /\ Len(result.harvesting_suggestions) = Len(losers)
            /\ \A i \in 1..Len(losers) :
                /\ i <= Len(result.harvesting_suggestions)
                /\ result.harvesting_suggestions[i].type = "loss_harvesting"
                /\ result.harvesting_suggestions[i].asset_name = losers[i].name
                /\ result.harvesting_suggestions[i].loss_amount
                       = RSub(losers[i].purchase_value, losers[i].current_value)
                /\ result.harvesting_suggestions[i].tax_benefit
                       = RMul(<<30, 100>>,
                              RSub(losers[i].purchase_value, losers[i].current_value))


HoldsFor(optimization) ==
    SelectSeq(optimization.tax_saving_opportunities,
              LAMBDA s : s.type = "hold_for_ltcg")

\* short-term on current_date and long-term on one of the next `days` days.
BecomesLongTermWithin(asset, current_date, days) ==
    /\ ~IsLongTerm(asset, current_date)
    /\ \E k \in 1..days : IsLongTerm(asset, current_date + k)

HoldCandidates(assets, current_date) ==
    SelectSeq(assets,
              LAMBDA a : /\ RGt(GainOf(a), Zero)
                         /\ BecomesLongTermWithin(a, current_date, 90))

\* C22: the tax optimizer emits a hold_for_ltcg suggestion exactly for the
\* assets that have a positive gain, are short-term today and become
\* long-term within the next 90 days, with potential_tax_saving =
\* gain * (20% - 12.5%); a long-term or loss-making asset gets none.
C22_HoldExactlyWhenNearLongTerm ==
    op = "calculate_tax_optimization" =>
        \A near \in {HoldCandidates(args.assets, args.current_date)} :
            /\ Len(HoldsFor(result)) = Len(near)
            /\ \A i \in 1..Len(near) :
                /\ i <= Len(HoldsFor(result))
                /\ HoldsFor(result)[i].asset_name = near[i].name
                /\ HoldsFor(result)[i].potential_tax_saving
                       = RMul(GainOf(near[i]),
                              RSub(<<20, 100>>, <<125, 1000>>))


(* Claims about the performer lists. *)
AtMostFive(n) == IF n < 5 THEN n ELSE 5

\* `list` holds the entries of min(5, number of candidates) different
\* candidates, ordered by return (descending or ascending), and no candidate
\* left out has a better (higher or lower) return than one in the list.
Ranks(list, assets, dashboard, candidates, descending) ==
    LET Before(a, b) == IF descending THEN RGe(a, b) ELSE RLe(a, b)
    IN  /\ Len(list) = AtMostFive(Cardinality(candidates))
        /\ \A k \in 1..Len(list) :
              \E i \in candidates : list[k] = AssetData(assets[i], dashboard)
        /\ \A k, l \in 1..Len(list) : k # l => list[k].name # list[l].name
        /\ \A k \in 1..(Len(list) - 1) :
              Before(list[k].return_percentage, list[k + 1].return_percentage)
        /\ \A i \in candidates :
              (\A k \in 1..Len(list) : list[k].name # assets[i].name)
                  => \A k \in 1..Len(list) :
                        Before(list[k].return_percentage, ReturnOf(assets[i]))

\* C23: in performance attribution an asset with a return above 0 is a
\* candidate for best_performers and every other asset for worst_performers;
\* best_performers holds the (at most 5) highest returns in descending
\* order, worst_performers the (at most 5) lowest in ascending order, and
\* no asset is in both lists.
C23_PerformersRanked ==
    op = "calculate_performance_attribution" =>
        LET assets == args.assets
            gainers == {i \in 1..Len(assets) : RGt(ReturnOf(assets[i]), Zero)}
        IN  /\ Ranks(result.best_performers, assets, args.dashboard,
                     gainers, TRUE)
            /\ Ranks(result.worst_performers, assets, args.dashboard,
                     (1..Len(assets)) \ gainers, FALSE)
            /\ \A k \in 1..Len(result.best_performers) :
                 \A l \in 1..Len(result.worst_performers) :
                    result.best_performers[k].name
                        # result.worst_performers[l].name

\* more than five candidates for each list, and both lists cut to five.
C23_Witness ==
    /\ op = "calculate_performance_attribution"
    /\ Len(args.assets) = 12
    /\ Len(result.best_performers) = 5
    /\ Len(result.worst_performers) = 5
    /\ result.best_performers[1].name = "G60"
    /\ result.worst_performers[1].name = "L50"


(* Claims about the risk-management score. *)

\* the share, in percent of the net worth, of the allocation held in `types`.
ShareOf(dashboard, types) ==
    PercentOf(AmountIn(dashboard.asset_allocation, types,
                       Len(dashboard.asset_allocation.keys)),
              dashboard.total_net_worth)

RECURSIVE PowerSums(_, _)
PowerSums(factor, months) ==
    IF months = 0 THEN <<One, Zero>>
    ELSE CHOOSE after \in
             {<<RMul(before[1], factor),
                RAdd(before[2], RMul(before[1], factor))>> :
                 before \in {PowerSums(factor, months - 1)}} : TRUE

\* the first year's growth when every monthly SIP is paid in before its
\* month's compounding and the lump sum earns nothing in the year: twelve
\* months of growth on the principal, twelve down to one on the SIPs.
StatedFirstGrowth(principal, annual_rate, monthly_sip) ==
    CHOOSE growth \in
        {RSub(RAdd(RMul(principal, sums[1]), RMul(sip, sums[2])),
              RAdd(principal, RMul(R(12), sip))) :
            sums \in {PowerSums(factor, 12) :
                         factor \in {RAdd(One, RDiv(RDiv(annual_rate, R(100)),
                                                    R(12)))}},
            sip \in {RMax(monthly_sip, Zero)}} : TRUE

\* C25: in the projector a month's SIP is added before that month's
\* compounding and the lump sum is added once after month 12 and earns no
\* growth in that year: for fixed principal, rate and SIP the first year's
\* growth is the same for every annual_investment, and with annual_rate = 0
\* growth is 0 in every year.
C25_ContributionOrder ==
    (/\ op = "calculate_compound_growth"
     /\ args.years >= 1) =>
        \A principal \in {args.principal}, annual_rate \in {args.annual_rate},
           monthly_sip \in {args.monthly_sip}, years \in {args.years},
           step_up_percentage \in {args.step_up_percentage} :
            /\ result[1].growth
                   = StatedFirstGrowth(principal, annual_rate, monthly_sip)
            /\ \A annual_investment \in Investments :
                  calculate_compound_growth(principal, annual_rate,
                      annual_investment, years, monthly_sip,
                      step_up_percentage)[1].growth = result[1].growth
            /\ annual_rate = Zero =>
                  \A year \in 1..Len(result) : result[year].growth = Zero

\* principal 10, a SIP of 5 and a lump sum of 3 with the value doubling
\* every month: 10 * 4095 + 5 * (8190 - 12) of growth, none on the lump sum.
C25_Witness ==
    /\ op = "calculate_compound_growth"
    /\ args.principal = R(10)
    /\ args.annual_rate = R(1200)
    /\ args.monthly_sip = R(5)
    /\ args.annual_investment = R(3)
    /\ result[1].growth = R(81840)
    /\ result[1].total_value = R(81913)


(* Claims about the simulated paths. *)

\* value(year) of a run whose sample in year y is sample[y]:
\* value(0) = initial_value and
\* value(y) = (value(y - 1) + annual_investment) * (1 + sample[y] / 100).
RECURSIVE StatedValue(_, _, _, _)
StatedValue(year, initial_value, annual_investment, sample) ==
    IF year = 0 THEN initial_value
    ELSE CHOOSE value \in
             {RMul(RAdd(before, annual_investment),
                   RAdd(One, RDiv(sample[year], R(100)))) :
                 before \in {StatedValue(year - 1, initial_value,
                                         annual_investment, sample)}} : TRUE

\* the samples of run number `run`: the draws of its years, one after the
\* other from the seeded generator, after those of the runs before it.
SamplesOf(run, years, annual_return, volatility) ==
    [y \in 1..years |->
        Normal(RngAfter(Seeded(0), (run - 1) * years + y - 1),
               annual_return, volatility)]

\* C26: in every run of the Monte Carlo simulation value(0) = initial_value
\* and value(y) = (value(y - 1) + annual_investment) * (1 + sample(y) / 100);
\* with volatility 0 all five percentile bands equal this series with
\* sample = annual_return.
C26_SimulatedPaths ==
    (/\ op = "run_monte_carlo_simulation"
     /\ error = "none") =>
        \A initial_value \in {args.initial_value},
           annual_return \in {args.annual_return},
           volatility \in {args.volatility},
           annual_investment \in {args.annual_investment},
           years \in {args.years}, simulations \in {args.simulations} :
            /\ \A runs \in {Simulations(simulations, Seeded(rng_before),
                                        initial_value, annual_return,
                                        volatility, annual_investment,
                                        years).results} :
                 \A run \in 1..simulations, y \in 1..years :
                    runs[run][y]
                        = StatedValue(y, initial_value, annual_investment,
                              SamplesOf(run, years, annual_return, volatility))
            /\ simulations = 1 =>
                 \A y \in 1..years :
                    result.percentile_50[y]
                        = StatedValue(y, initial_value, annual_investment,
                              SamplesOf(1, years, annual_return, volatility))
            /\ volatility = Zero =>
                 \A y \in 1..years :
                   \A value \in {StatedValue(y, initial_value,
                                     annual_investment,
                                     [year \in 1..years |-> annual_return])} :
                      /\ result.percentile_10[y] = value
                      /\ result.percentile_25[y] = value
                      /\ result.percentile_50[y] = value
                      /\ result.percentile_75[y] = value
                      /\ result.percentile_90[y] = value

\* one run of two years with samples of 10% and 30%:
\* (100 + 10) * 1.1 = 121 and (121 + 10) * 1.3 = 170.3.
C26_Witness ==
    /\ op = "run_monte_carlo_simulation"
    /\ error = "none"
    /\ args.volatility = R(20)
    /\ args.simulations = 1
    /\ args.years = 2
    /\ result.percentile_50[1] = R(121)
    /\ result.percentile_50[2] = <<1703, 10>>

\* volatility 0, three runs of two years: every band is 121, then 144.1.
C26_Witness_NoVolatility ==
    /\ op = "run_monte_carlo_simulation"
    /\ args.volatility = Zero
    /\ args.simulations = 3
    /\ args.years = 2
    /\ result.percentile_10[2] = <<1441, 10>>
    /\ result.percentile_90[2] = <<1441, 10>>


\* C27: if the tax optimizer suggests holding an asset with
\* days_remaining = d, then evaluating the same asset d days later
\* classifies its gain as long-term.
C27_LongTermAfterDaysRemaining ==
    op = "calculate_tax_optimization" =>
        \A holds \in {HoldsFor(result)} :
        \A k \in 1..Len(holds), i \in 1..Len(args.assets) :
            args.assets[i].name = holds[k].asset_name =>
                \A later \in {calculate_tax_optimization(<<args.assets[i]>>,
                                  args.current_date + holds[k].days_remaining)} :
                    /\ later.current_year_tax.ltcg_gains
                           = GainOf(args.assets[i])
                    /\ later.current_year_tax.stcg_gains = Zero


\* C28: in every result of the tax optimizer ltcg_exemption_used +
\* ltcg_exemption_remaining = 125000 and both are non-negative, the three
\* liabilities are non-negative, and effective_tax_rate lies between 0 and
\* 20.
C28_TaxFiguresInRange ==
    op = "calculate_tax_optimization" =>
        /\ RAdd(result.current_year_tax.ltcg_exemption_used,
                result.current_year_tax.ltcg_exemption_remaining) = R(125000)
        /\ RGe(result.current_year_tax.ltcg_exemption_used, Zero)
        /\ RGe(result.current_year_tax.ltcg_exemption_remaining, Zero)
        /\ RGe(result.ltcg_liability, Zero)
        /\ RGe(result.stcg_liability, Zero)
        /\ RGe(result.total_tax_liability, Zero)
        /\ RGe(result.effective_tax_rate, Zero)
        /\ RLe(result.effective_tax_rate, R(20))

\* a long-term gain of 2000 that uses part of the exemption and a
\* short-term gain of 2000 taxed at 20%: 400 of tax on 4000 of gains.
C28_Witness ==
    /\ op = "calculate_tax_optimization"
    /\ Len(args.assets) = 2
    /\ result.current_year_tax.ltcg_exemption_used = R(2000)
    /\ result.current_year_tax.ltcg_exemption_remaining = R(123000)
    /\ result.stcg_liability = R(400)
    /\ result.effective_tax_rate = R(10)


(* Claims about the owners of the stored assets. *)

\* the call just made names an asset that another user owns.
OwnedByAnother(docs, asset_id, user_id) ==
    /\ \E i \in 1..Len(docs) :
          docs[i].id = asset_id /\ docs[i].user_id # user_id
    /\ \A i \in 1..Len(docs) :
          docs[i].id = asset_id => docs[i].user_id # user_id

\* the documents of every user but user_id.
NotOwnedBy(docs, user_id) ==
    SelectSeq(docs, LAMBDA asset : asset.user_id # user_id)

IsolatedStep ==
    /\ (/\ op' \in {"get_asset", "update_asset", "delete_asset"}
        /\ OwnedByAnother(db, args'.asset_id, args'.user_id)) =>
            /\ error' = "404"
            /\ db' = db
    /\ op' = "get_assets" =>
            /\ result' = OwnedBy(db, args'.user_id)
            /\ db' = db
    /\ op' = "get_dashboard" =>
            /\ NotOwnedBy(db', args'.user_id) = NotOwnedBy(db, args'.user_id)
            /\ Len(db') = Len(db)
            /\ \A i \in 1..Len(db) : db'[i].user_id = db[i].user_id
            /\ result' = DashboardSummary(OwnedBy(db', args'.user_id))

\* C29: assets are isolated per owner: get_asset, update_asset and
\* delete_asset on an asset of another user answer 404 and leave it
\* unchanged, and get_assets and get_dashboard read and write only the
\* caller's own assets.
C29_OwnerIsolation == [][IsolatedStep]_vars

\* a user asked to delete the other user's asset and got 404; the asset is
\* still there.
C29_Witness ==
    /\ op = "delete_asset"
    /\ error = "404"
    /\ OwnedByAnother(db, args.asset_id, args.user_id)

\* the dashboard of one user repriced that user's gold while the other
\* user's gold kept its stored value.
C29_Witness_Dashboard ==
    /\ op = "get_dashboard"
    /\ Len(db) = 2
    /\ db[1].user_id # db[2].user_id
    /\ \A i \in 1..2 : db[i].asset_type = "gold"
    /\ \E i \in 1..2 : db[i].user_id = args.user_id
                        /\ db[i].current_value = R(63500)
    /\ \E i \in 1..2 : db[i].user_id # args.user_id
                        /\ db[i].current_value = R(500)


(* Claims about registration. *)

\* C30: after any interleaving of concurrent register calls at most one
\* user is stored per email: a register call for an email that is already
\* registered, or is being registered concurrently, fails with 400 and
\* stores no user.
C30_OneUserPerEmail ==
    /\ \A i, j \in 1..Len(users) :
          users[i].email = users[j].email => i = j
    /\ \A request \in 1..MaxRequests :
          requests[request].status = 200 =>
              \A other \in (1..MaxRequests) \ {request} :
                  requests[other].status = 200 =>
                      requests[other].email # requests[request].email

=============================================================================
